---- MODULE Spec2Model ----
(***************************************************************************)
(* Fused chunked cross-entropy loss (unsloth/kernels/fused_cel.py).        *)
(*                                                                         *)
(* Number model.  A floating value is an integer count of 1/ONE units      *)
(* (fixed point), or one of the three non-finite values NaN, PInf, NInf.   *)
(* float32 keeps every unit; float16 and bfloat16 keep only multiples of   *)
(* a coarser step, so a cast to a 16-bit format rounds.  Sums are exact;   *)
(* products, quotients, exp and log round toward zero.  exp and log are    *)
(* taken to base 2 (piecewise linear between powers of two); they are      *)
(* strictly tied to each other only through Log(Exp(0)) = 0, as in the     *)
(* kernel.                                                                 *)
(***************************************************************************)
EXTENDS Integers, Sequences, FiniteSets, TLC

\* ------------------------------------------------------------------ bounds
MaxTokens == 4
MaxRows == 2

\* ------------------------------------------------------------ float values
ONE  == 2^6
NaN  == 2^20 + 1
PInf == 2^20
NInf == -(2^20)

IsFin(x) == x # NaN /\ x # PInf /\ x # NInf
IsInf(x) == x = PInf \/ x = NInf
Sign(x)  == IF x > 0 THEN 1 ELSE IF x < 0 THEN -1 ELSE 0
Abs(x)   == IF x < 0 THEN -x ELSE x

TruncDiv(a, b) == Sign(a) * Sign(b) * (Abs(a) \div Abs(b))

FNeg(a) == IF a = NaN THEN NaN ELSE -a

FAdd(a, b) ==
    IF a = NaN \/ b = NaN THEN NaN
    ELSE IF IsInf(a) /\ IsInf(b) THEN (IF a = b THEN a ELSE NaN)
    ELSE IF IsInf(a) THEN a
    ELSE IF IsInf(b) THEN b
    ELSE a + b

FSub(a, b) == FAdd(a, FNeg(b))

FMul(a, b) ==
    IF a = NaN \/ b = NaN THEN NaN
    ELSE IF IsInf(a) \/ IsInf(b)
         THEN (IF a = 0 \/ b = 0 THEN NaN
               ELSE IF Sign(a) * Sign(b) > 0 THEN PInf ELSE NInf)
    ELSE TruncDiv(a * b, ONE)

FDiv(a, b) ==
    IF a = NaN \/ b = NaN THEN NaN
    ELSE IF IsInf(a) /\ IsInf(b) THEN NaN
    ELSE IF b = 0
         THEN (IF a = 0 THEN NaN ELSE IF a > 0 THEN PInf ELSE NInf)
    ELSE IF IsInf(a) THEN (IF Sign(a) * Sign(b) > 0 THEN PInf ELSE NInf)
    ELSE IF IsInf(b) THEN 0
    ELSE TruncDiv(a * ONE, b)

FMax(a, b) ==
    IF a = NaN \/ b = NaN THEN NaN ELSE IF a >= b THEN a ELSE b

\* exp: 2^x on the grid; x <= 0 after the row maximum is subtracted
FExp(x) ==
    IF x = NaN THEN NaN
    ELSE IF x = PInf THEN PInf
    ELSE IF x = NInf THEN 0
    ELSE IF x <= 0
         THEN LET d == (-x) \div ONE
                  r == (-x) % ONE
                  hi == IF d > 6 THEN 0 ELSE ONE \div (2^d)
              IN  hi - TruncDiv(TruncDiv(hi, 2) * r, ONE)
    ELSE IF x \div ONE > 12 THEN PInf
    ELSE LET lo == ONE * 2^(x \div ONE)
         IN  lo + TruncDiv(lo * (x % ONE), ONE)

\* log: base-2 logarithm on the grid, linear between powers of two
RECURSIVE FLogPos(_, _)
FLogPos(s, e) ==
    IF s < ONE * 2^(e + 1)
    THEN e * ONE + TruncDiv(s - ONE * 2^e, 2^e)
    ELSE FLogPos(s, e + 1)

RECURSIVE FLogSmall(_)
FLogSmall(s) == IF s >= ONE THEN FLogPos(s, 0) ELSE FLogSmall(2 * s) - ONE

FLog(s) ==
    IF s = NaN \/ s = NInf THEN NaN
    ELSE IF s = PInf THEN PInf
    ELSE IF s < 0 THEN NaN
    ELSE IF s = 0 THEN NInf
    ELSE FLogSmall(s)

\* tl.where / torch.where on one element
Where(c, a, b) == IF c THEN a ELSE b

\* --------------------------------------------------------------- dtypes
F32  == "float32"
F16  == "float16"
BF16 == "bfloat16"
Dtypes == {F32, F16, BF16}

\* grid step of a storage format, in units
Step(dt) == IF dt = F32 THEN 1 ELSE IF dt = F16 THEN 2^2 ELSE 2^4

\* tensor.to(dt) on one element
CastVal(x, dt) == IF IsFin(x) THEN TruncDiv(x, Step(dt)) * Step(dt) ELSE x

\* ------------------------------------------------------------- tensors
\* A tensor is [shape, dtype, data]; data is the row-major list of its rows
\* (a matrix: Seq of rows; a vector or label tensor: Seq of scalars).
Tensor(shape, dt, data) == [shape |-> shape, dtype |-> dt, data |-> data]
None == [shape |-> <<>>, dtype |-> "None", data |-> <<>>]
IsNone(t) == t.dtype = "None"

RECURSIVE Prod(_)
Prod(shape) == IF shape = <<>> THEN 1 ELSE Head(shape) * Prod(Tail(shape))

RECURSIVE FSum(_)
FSum(xs) == IF xs = <<>> THEN 0 ELSE FAdd(Head(xs), FSum(Tail(xs)))

RECURSIVE FMaxSeq(_)
FMaxSeq(xs) == IF Len(xs) = 1 THEN xs[1] ELSE FMax(Head(xs), FMaxSeq(Tail(xs)))

Dot(a, b) == FSum([h \in 1..Len(a) |-> FMul(a[h], b[h])])
CastRow(r, dt) == [h \in 1..Len(r) |-> CastVal(r[h], dt)]
CastRows(m, dt) == [k \in 1..Len(m) |-> CastRow(m[k], dt)]
Rows(m, lo, hi) == [k \in 1..(hi - lo) |-> m[lo + k]]
ZeroRows(n, w) == [k \in 1..n |-> [h \in 1..w |-> 0]]

\* A @ B^T : (n x h) , (v x h) -> n x v, stored in format dt
MatmulT(A, B, dt) ==
    [r \in 1..Len(A) |-> [c \in 1..Len(B) |-> CastVal(Dot(A[r], B[c]), dt)]]
\* G @ W : (n x v) , (v x h) -> n x h
Matmul(G, W, hd, dt) ==
    [r \in 1..Len(G) |->
        [h \in 1..hd |->
            CastVal(FSum([c \in 1..Len(W) |-> FMul(G[r][c], W[c][h])]), dt)]]
\* acc + G^T @ X : (v x h) + (n x v)^T (n x h), stored in format dt
Addmm(acc, G, X, dt) ==
    [c \in 1..Len(acc) |->
        [h \in 1..Len(acc[c]) |->
            CastVal(FAdd(acc[c][h],
                         FSum([r \in 1..Len(G) |-> FMul(G[r][c], X[r][h])])), dt)]]

\* triton.next_power_of_2 / triton.cdiv
RECURSIVE NextPow2From(_, _)
NextPow2From(n, p) == IF p >= n THEN p ELSE NextPow2From(n, 2 * p)
next_power_of_2(n) == NextPow2From(n, 1)
cdiv(a, b) == (a + b - 1) \div b

\* the kernel without the tl.where of line 85 (gradient of an ignored row)
KernelRowNoGradMask(logits, targ_v, divisor_v, n_cols, ignore, BLOCK_SIZE) ==
    LET col_offsets == 0..(BLOCK_SIZE - 1)
        unnorm == [c \in col_offsets |-> IF c < n_cols THEN logits[c + 1] ELSE NInf]
        asSeq(f) == [k \in 1..BLOCK_SIZE |-> f[k - 1]]
        row_max == FMaxSeq(asSeq(unnorm))
        logit_row == [c \in col_offsets |-> FSub(unnorm[c], row_max)]
        exp_logit_row == [c \in col_offsets |-> FExp(logit_row[c])]
        sum_exp == FSum(asSeq(exp_logit_row))
        gt == FSum(asSeq([c \in col_offsets |-> Where(targ_v = c, logit_row[c], 0)]))
        loss2 == Where(targ_v = ignore, 0, FDiv(FSub(FLog(sum_exp), gt), divisor_v))
        grad1 == [c \in col_offsets |->
                    FDiv(FSub(FDiv(exp_logit_row[c], sum_exp), Where(targ_v = c, ONE, 0)),
                         divisor_v)]
    IN  [loss |-> loss2, grad |-> [k \in 1..n_cols |-> grad1[k - 1]]]

\* ---------------------------------------------------------------- kernel
\* tl.load with other = 0.0 in place of float("-Inf")
MaskedLoadZero(memory, base, n_cols, BLOCK_SIZE) ==
    [k \in 1..BLOCK_SIZE |-> IF k - 1 < n_cols THEN memory[base + k] ELSE 0]

\* tl.load(row_start + col_offsets, mask = col_offsets < n_cols, other = -Inf):
\* the BLOCK_SIZE lanes of the program whose row starts at address base
MaskedLoad(memory, base, n_cols, BLOCK_SIZE) ==
    [k \in 1..BLOCK_SIZE |-> IF k - 1 < n_cols THEN memory[base + k] ELSE NInf]

\* the addresses a masked load reads
LoadAddrs(base, n_cols, BLOCK_SIZE) ==
    {base + c : c \in {d \in 0..(BLOCK_SIZE - 1) : d < n_cols}}

\* the addresses of a store without its mask
StoreAddrsUnmasked(base, n_cols, BLOCK_SIZE) ==
    {base + c : c \in 0..(BLOCK_SIZE - 1)}

\* tl.store(row_start + col_offsets, grad, mask = col_offsets < n_cols): the
\* addresses written
StoreAddrs(base, n_cols, BLOCK_SIZE) ==
    {base + c : c \in {d \in 0..(BLOCK_SIZE - 1) : d < n_cols}}

\* the row left as loaded, its maximum not subtracted
NormalizeNoMax(x) == x

\* logit_row_unnormalized - tl.max(logit_row_unnormalized, axis=0)
Normalize(x) ==
    LET row_max == FMaxSeq(x) IN [k \in 1..Len(x) |-> FSub(x[k], row_max)]

\* a one-hot row for labels counted from 1
OneHotFromOne(targ_v, BLOCK_SIZE) ==
    [k \in 1..BLOCK_SIZE |-> Where(targ_v = k, ONE, 0)]

\* tl.where(targ == col_offsets, 1.0, 0.0)
OneHot(targ_v, BLOCK_SIZE) ==
    [k \in 1..BLOCK_SIZE |-> Where(targ_v = k - 1, ONE, 0)]

\* Lines 66-85 on the loaded lanes x: the loss stored at loss_ptr and the
\* BLOCK_SIZE gradient lanes handed to the masked store.
\* the row computation with the ignore mask applied before the division
KernelComputeMaskFirst(x, targ_v, divisor_v, ignore, BLOCK_SIZE) ==
    LET lanes == 1..BLOCK_SIZE
        logit_row == Normalize(x)
        exp_logit_row == [k \in lanes |-> FExp(logit_row[k])]
        sum_exp_logit_row == FSum(exp_logit_row)
        logit_gt_logit ==
            FSum([k \in lanes |-> Where(targ_v = k - 1, logit_row[k], 0)])
        loss0 == FSub(FLog(sum_exp_logit_row), logit_gt_logit)
        loss1 == Where(targ_v = ignore, 0, loss0)
        targ_one_hot == OneHot(targ_v, BLOCK_SIZE)
        grad0 == [k \in lanes |->
                    FSub(FDiv(exp_logit_row[k], sum_exp_logit_row), targ_one_hot[k])]
        grad1 == [k \in lanes |-> Where(targ_v = ignore, 0, grad0[k])]
    IN  [loss |-> FDiv(loss1, divisor_v),
         grad |-> [k \in lanes |-> FDiv(grad1[k], divisor_v)]]

KernelCompute(x, targ_v, divisor_v, ignore, BLOCK_SIZE) ==
    LET lanes == 1..BLOCK_SIZE
        logit_row == Normalize(x)
        exp_logit_row == [k \in lanes |-> FExp(logit_row[k])]
        sum_exp_logit_row == FSum(exp_logit_row)
        log_sum_exp_logit_row == FLog(sum_exp_logit_row)
        logit_gt_logit ==
            FSum([k \in lanes |-> Where(targ_v = k - 1, logit_row[k], 0)])
        loss0 == FSub(log_sum_exp_logit_row, logit_gt_logit)
        loss1 == FDiv(loss0, divisor_v)
        loss2 == Where(targ_v = ignore, 0, loss1)
        targ_one_hot == OneHot(targ_v, BLOCK_SIZE)
        grad0 == [k \in lanes |->
                    FSub(FDiv(exp_logit_row[k], sum_exp_logit_row), targ_one_hot[k])]
        grad1 == [k \in lanes |-> FDiv(grad0[k], divisor_v)]
        grad2 == [k \in lanes |-> Where(targ_v = ignore, 0, grad1[k])]
    IN  [loss |-> loss2, grad |-> grad2]

\* One program of fused_cross_entropy_fwd_bwd_kernel: row row_idx of the chunk.
\* Returns the loss stored at loss_ptr and the gradient stored over the
\* row's first n_cols columns.
KernelRow(logits, targ_v, divisor_v, n_cols, ignore, BLOCK_SIZE) ==
    LET out == KernelCompute(MaskedLoad(logits, 0, n_cols, BLOCK_SIZE), targ_v,
                             divisor_v, ignore, BLOCK_SIZE)
    IN  [loss |-> out.loss, grad |-> [k \in 1..n_cols |-> out.grad[k]]]

\* ------------------------------------------------------------------ state
VARIABLES
    pc,                \* position of the one loss computation
    err,               \* which check failed ("none" when none did)
    hidden_states,     \* fused_cel_layer's arguments (None when the caller
    labels,            \*   enters through fused_cel_linear)
    in_feat,           \* forward's arguments
    proj_weight,
    targ,
    n_loop_iters,
    ignore_index,
    reduction,
    autocast,          \* "off" or the autocast dtype
    dtype,             \* forward's locals
    loss,
    grad_in_feat,
    grad_proj_weight,
    divisor,
    proj_weight_cast,
    loop_chunk_size,
    logits_chunk_cast,
    in_feat_chunk,
    logits_chunk,      \* alias grad_logits_chunk: the kernel's in/out buffer
    i,                 \* index of the chunk being processed
    ctx,               \* what forward leaves for backward
    ret_loss,          \* forward's return value
    ret_grads,         \* backward's return value
    grad_output,       \* backward's argument
    launches,          \* kernel launches so far
    storage,           \* which memory each tensor name of forward refers to
    trace,             \* the allocations and in-place writes so far, in order
    contrib,           \* per finished chunk: its gradient rows and feature rows
    grid,              \* one kernel launch: its arguments
    gpu_mem,           \* one kernel launch: the buffers its programs address
    programs,          \* one kernel launch: each row program's position
    accesses,          \* one kernel launch: addresses each program read/wrote
    model_config,      \* the model's config object (pretraining_tp, fused_cel)
    wrapper            \* LlamaForCausalLMFusedCEL.forward: position and locals

argVars == <<hidden_states, labels, in_feat, proj_weight, targ, n_loop_iters,
             ignore_index, reduction, autocast>>
bufVars == <<loss, grad_in_feat, grad_proj_weight, logits_chunk_cast,
             in_feat_chunk, logits_chunk>>
setupVars == <<dtype, divisor, proj_weight_cast, loop_chunk_size>>
memVars == <<storage, trace, contrib>>
fwdVars == <<pc, err, argVars, bufVars, setupVars, i, ctx, ret_loss, ret_grads,
             grad_output, launches, memVars>>
launchVars == <<grid, gpu_mem, programs, accesses>>
modelVars == <<model_config, wrapper>>
vars == <<fwdVars, launchVars, modelVars>>

\* a caller's tensor also carries its requires_grad flag
Param(shape, dt, rg, data) ==
    [shape |-> shape, dtype |-> dt, requires_grad |-> rg, data |-> data]
NoParam == [shape |-> <<>>, dtype |-> "None", requires_grad |-> FALSE, data |-> <<>>]

\* value of an uninitialised float (torch.empty)
Uninit == 2^20 + 2
NoCtx == [set |-> FALSE, in_feat_requires_grad |-> FALSE,
          proj_weight_requires_grad |-> FALSE, saved_tensors |-> <<>>]

\* --------------------------------------------------------- tensor memory
\* A tensor's memory is named by the tensor that allocated it and by the chunk
\* index it was allocated in; two tensor names alias when they hold one memory.
Mem(name, gen) == <<name, gen>>
NoMem == Mem("none", 0)
\* the memory of the tensors the caller hands to fused_cel_linear
CallerMem == {Mem("in_feat", 0), Mem("proj_weight", 0), Mem("targ", 0)}

\* tensor.to(dtype), tensor.float(): the tensor itself when it already has the
\* format, a new copy otherwise
To(m, from, to, fresh) == IF from = to THEN m ELSE fresh

\* a gradient accumulator that is the input itself instead of a new tensor
zeros_like_aliased(src, name) == src

\* torch.zeros_like(src): a new tensor
zeros_like(src, name) == Mem(name, 0)

\* one allocation or one in-place write of rows [lo, hi) of a memory
Event(op, chunk, buf, lo, hi) ==
    [op |-> op, chunk |-> chunk, buf |-> buf, lo |-> lo, hi |-> hi]
EventIf(c, e) == IF c THEN <<e>> ELSE <<>>

NoStorage ==
    [loss |-> NoMem, grad_in_feat |-> NoMem, grad_proj_weight |-> NoMem,
     proj_weight_cast |-> NoMem, logits_chunk_cast |-> NoMem,
     in_feat_chunk |-> NoMem, logits_chunk |-> NoMem, grad_logits_chunk |-> NoMem]

\* ------------------------------------------------------- fused_cel_layer
\* labels[..., :-1]: the labels left unshifted
DropLastLabel(lab) ==
    LET bs == lab.shape[1]
        L  == lab.shape[2]
    IN  [shape |-> <<bs, L - 1>>,
         data  |-> [k \in 1..(bs * (L - 1)) |->
                      lab.data[((k - 1) \div (L - 1)) * L + ((k - 1) % (L - 1)) + 1]]]

\* labels[..., 1:] of a (bs, L) label tensor
DropFirstLabel(lab) ==
    LET bs == lab.shape[1]
        L  == lab.shape[2]
    IN  [shape |-> <<bs, L - 1>>,
         data  |-> [k \in 1..(bs * (L - 1)) |->
                      lab.data[((k - 1) \div (L - 1)) * L + ((k - 1) % (L - 1)) + 2]]]
\* torch.hstack([labels, place_holder]) with place_holder (bs, 1) of ignore
PadLabel(lab, ignore) ==
    LET bs == lab.shape[1]
        L  == lab.shape[2]
    IN  [shape |-> <<bs, L + 1>>,
         data  |-> [k \in 1..(bs * (L + 1)) |->
                      IF (k - 1) % (L + 1) = L THEN ignore
                      ELSE lab.data[((k - 1) \div (L + 1)) * L + ((k - 1) % (L + 1)) + 1]]]
\* hidden_states[..., :-1, :]
DropLastRow(hs) ==
    LET bs == hs.shape[1]
        L  == hs.shape[2]
    IN  [hs EXCEPT !.shape = <<bs, L - 1, hs.shape[3]>>,
                   !.data  = [k \in 1..(bs * (L - 1)) |->
                                hs.data[((k - 1) \div (L - 1)) * L + ((k - 1) % (L - 1)) + 1]]]

\* the (x, labels) pair fused_cel_layer hands to fused_cel_linear
LayerArgs(hs, lab, iters, ignore) ==
    IF iters > 1
    THEN [x |-> hs, labels |-> PadLabel(DropFirstLabel(lab), ignore)]
    ELSE [x |-> DropLastRow(hs), labels |-> DropFirstLabel(lab)]

\* ------------------------------------- FusedCrossEntropyLossFunction.forward
Rank(t) == Len(t.shape)

\* in_feat after view(-1, hidden) and requires_grad_(True)
in_feat_view ==
    [in_feat EXCEPT !.shape = <<in_feat.shape[1] * in_feat.shape[2], in_feat.shape[3]>>,
                    !.requires_grad = TRUE]
\* targ after view(-1)
targ_view == [shape |-> <<Prod(targ.shape)>>, data |-> targ.data]

n_tokens   == in_feat_view.shape[1]
hidden_dim == in_feat_view.shape[2]
n_classes  == proj_weight.shape[1]
BLOCK_SIZE == next_power_of_2(n_classes)

\* forward with a range check on the labels
ForwardErrorChecksLabels ==
    IF Rank(in_feat) # 3 THEN "unpack"
    ELSE IF Rank(proj_weight) # 2 THEN "proj_weight_ndim"
    ELSE IF in_feat_view.shape[1] # targ_view.shape[1] THEN "token_count"
    ELSE IF reduction \notin {"mean", "sum"} THEN "reduction"
    ELSE IF ~(n_loop_iters > 0) THEN "n_loop_iters"
    ELSE IF n_tokens % n_loop_iters # 0 THEN "divisible"
    ELSE IF \E k \in 1..Len(targ.data) :
               /\ targ.data[k] # ignore_index
               /\ ~(0 <= targ.data[k] /\ targ.data[k] < n_classes)
         THEN "label_range"
    ELSE "none"

\* forward without the divisibility assertion of lines 142-144
ForwardErrorNoDivisible ==
    IF Rank(in_feat) # 3 THEN "unpack"
    ELSE IF Rank(proj_weight) # 2 THEN "proj_weight_ndim"
    ELSE IF in_feat_view.shape[1] # targ_view.shape[1] THEN "token_count"
    ELSE IF reduction \notin {"mean", "sum"} THEN "reduction"
    ELSE IF ~(n_loop_iters > 0) THEN "n_loop_iters"
    ELSE "none"

\* forward without the reduction assertion of line 140
ForwardErrorNoReduction ==
    IF Rank(in_feat) # 3 THEN "unpack"
    ELSE IF Rank(proj_weight) # 2 THEN "proj_weight_ndim"
    ELSE IF in_feat_view.shape[1] # targ_view.shape[1] THEN "token_count"
    ELSE IF ~(n_loop_iters > 0) THEN "n_loop_iters"
    ELSE IF n_tokens % n_loop_iters # 0 THEN "divisible"
    ELSE "none"

\* the first check of forward that fails, in the order the code runs them
ForwardError ==
    IF Rank(in_feat) # 3 THEN "unpack"
    ELSE IF Rank(proj_weight) # 2 THEN "proj_weight_ndim"
    ELSE IF in_feat_view.shape[1] # targ_view.shape[1] THEN "token_count"
    ELSE IF reduction \notin {"mean", "sum"} THEN "reduction"
    ELSE IF ~(n_loop_iters > 0) THEN "n_loop_iters"
    ELSE IF n_tokens % n_loop_iters # 0 THEN "divisible"
    ELSE "none"

\* the compute precision taken from the features whatever autocast says
ComputeDtypeNative == in_feat.dtype

\* lines 151-155: the autocast precision if autocast is enabled, else in_feat's
ComputeDtype == IF autocast # "off" THEN autocast ELSE in_feat.dtype

CountNotIgnored(t) == Cardinality({k \in 1..Len(t) : t[k] # ignore_index})

ComputeDivisor ==
    IF reduction = "mean" THEN ONE * CountNotIgnored(targ_view.data) ELSE ONE

\* torch.split(in_feat, loop_chunk_size): number of chunks and their row ranges
NumChunks == cdiv(n_tokens, loop_chunk_size)
\* the chunk index taken for the row offset
token_start_idx_unscaled == i
\* lines 183-184
token_start_idx == i * loop_chunk_size
token_end_idx == (i + 1) * loop_chunk_size
Min(a, b) == IF a <= b THEN a ELSE b
ChunkEnd == Min(token_end_idx, n_tokens)

\* the memories of lines 150-180: loss, the two accumulators, the cast weight
\* and the chunk buffer
EnterStorage ==
    [NoStorage EXCEPT
        !.loss = Mem("loss", 0),
        !.grad_proj_weight =
            IF proj_weight.requires_grad
            THEN zeros_like(Mem("proj_weight", 0), "grad_proj_weight") ELSE NoMem,
        !.grad_in_feat =
            IF in_feat_view.requires_grad
            THEN zeros_like(Mem("in_feat", 0), "grad_in_feat") ELSE NoMem,
        !.proj_weight_cast =
            To(Mem("proj_weight", 0), proj_weight.dtype, ComputeDtype,
               Mem("proj_weight_cast", 0)),
        !.logits_chunk_cast = Mem("logits_chunk_cast", 0)]

EnterAllocs ==
    LET st == EnterStorage
    IN  <<Event("alloc", -1, st.loss, 0, n_tokens)>>
        \o EventIf(st.grad_proj_weight # NoMem,
                   Event("alloc", -1, st.grad_proj_weight, 0, n_classes))
        \o EventIf(st.grad_in_feat # NoMem,
                   Event("alloc", -1, st.grad_in_feat, 0, n_tokens))
        \o EventIf(st.proj_weight_cast # Mem("proj_weight", 0),
                   Event("alloc", -1, st.proj_weight_cast, 0, n_classes))
        \o <<Event("alloc", -1, st.logits_chunk_cast, 0, cdiv(n_tokens, n_loop_iters))>>

\* lines 117-180: unpack, checks, allocations, divisor, weight cast
Enter ==
    /\ pc = "linear"
    /\ IF ForwardError # "none"
       THEN /\ pc' = "error"
            /\ err' = ForwardError
            /\ UNCHANGED <<bufVars, setupVars, i, memVars>>
       ELSE /\ pc' = "project"
            /\ err' = "none"
            /\ dtype' = ComputeDtype
            /\ loss' = [k \in 1..n_tokens |-> Uninit]
            /\ grad_proj_weight' =
                  IF proj_weight.requires_grad
                  THEN Tensor(proj_weight.shape, ComputeDtype,
                              ZeroRows(n_classes, hidden_dim))
                  ELSE None
            /\ grad_in_feat' =
                  IF in_feat_view.requires_grad
                  THEN Tensor(in_feat_view.shape, in_feat.dtype,
                              ZeroRows(n_tokens, hidden_dim))
                  ELSE None
            /\ divisor' = ComputeDivisor
            /\ proj_weight_cast' = CastRows(proj_weight.data, ComputeDtype)
            /\ loop_chunk_size' = cdiv(n_tokens, n_loop_iters)
            /\ logits_chunk_cast' =
                  Tensor(<<cdiv(n_tokens, n_loop_iters), n_classes>>, ComputeDtype,
                         ZeroRows(cdiv(n_tokens, n_loop_iters), n_classes))
            /\ i' = 0
            /\ storage' = EnterStorage
            /\ trace' = EnterAllocs
            /\ UNCHANGED <<in_feat_chunk, logits_chunk, contrib>>
    /\ UNCHANGED <<argVars, ctx, ret_loss, ret_grads, grad_output, launches,
                   launchVars, modelVars>>

\* the memories of lines 186-190: the cast chunk, the matmul's out= buffer and
\* its float32 form
ProjectStorage ==
    [storage EXCEPT
        !.in_feat_chunk = To(Mem("in_feat", 0), in_feat.dtype, dtype,
                             Mem("in_feat_chunk", i)),
        !.logits_chunk = To(storage.logits_chunk_cast, dtype, F32,
                            Mem("logits_chunk", i))]

ProjectEvents(n_rows) ==
    LET st == ProjectStorage
    IN  EventIf(st.in_feat_chunk # Mem("in_feat", 0),
                Event("alloc", i, st.in_feat_chunk, 0, n_rows))
        \o <<Event("matmul_out", i, st.logits_chunk_cast, 0, n_rows)>>
        \o EventIf(st.logits_chunk # st.logits_chunk_cast,
                   Event("alloc", i, st.logits_chunk, 0, n_rows))

\* a projection that writes only the first row of the reused buffer
ProjectFirstRow ==
    /\ pc = "project"
    /\ LET chunk  == CastRows(Rows(in_feat_view.data, token_start_idx, ChunkEnd), dtype)
           logits == MatmulT(chunk, proj_weight_cast, dtype)
           kept   == [k \in 1..Len(chunk) |->
                        IF k = 1 THEN logits[k] ELSE logits_chunk_cast.data[k]]
       IN  /\ in_feat_chunk' = chunk
           /\ logits_chunk_cast' = Tensor(<<Len(chunk), n_classes>>, dtype, kept)
           /\ logits_chunk' = Tensor(<<Len(chunk), n_classes>>, F32, kept)
           /\ storage' = ProjectStorage
           /\ trace' = trace \o ProjectEvents(Len(chunk))
    /\ pc' = "kernel"
    /\ UNCHANGED <<err, argVars, loss, grad_in_feat, grad_proj_weight, setupVars,
                   i, ctx, ret_loss, ret_grads, grad_output, launches, contrib,
                   launchVars, modelVars>>

\* lines 183-190: the chunk's logits, into the preallocated buffer
Project ==
    /\ pc = "project"
    /\ LET chunk  == CastRows(Rows(in_feat_view.data, token_start_idx, ChunkEnd), dtype)
           logits == MatmulT(chunk, proj_weight_cast, dtype)
       IN  /\ in_feat_chunk' = chunk
           /\ logits_chunk_cast' =
                 Tensor(<<Len(chunk), n_classes>>, dtype, logits)
           /\ logits_chunk' = Tensor(<<Len(chunk), n_classes>>, F32, logits)
           /\ storage' = ProjectStorage
           /\ trace' = trace \o ProjectEvents(Len(chunk))
    /\ pc' = "kernel"
    /\ UNCHANGED <<err, argVars, loss, grad_in_feat, grad_proj_weight, setupVars,
                   i, ctx, ret_loss, ret_grads, grad_output, launches, contrib,
                   launchVars, modelVars>>

\* lines 193-215: one kernel launch, one program per row of the chunk
KernelChunk(logits, targ_chunk, div) ==
    [r \in 1..Len(logits) |->
        KernelRow(logits[r], targ_chunk[r], div, n_classes, ignore_index, BLOCK_SIZE)]

\* the launch's stores: the loss slice and, through grad_logits_chunk, the
\* buffer logits_chunk names
KernelEvents(n_rows) ==
    <<Event("store_loss", i, storage.loss, token_start_idx, token_start_idx + n_rows),
      Event("store_grad", i, storage.logits_chunk, 0, n_rows)>>

\* the kernel launched with a divisor counted over the chunk's labels only
KernelPerChunkDivisor ==
    /\ pc = "kernel"
    /\ LET n_tokens_chunk == logits_chunk.shape[1]
           targ_chunk == Rows(targ_view.data, token_start_idx, ChunkEnd)
           div == IF reduction = "mean" THEN ONE * CountNotIgnored(targ_chunk) ELSE ONE
           out == KernelChunk(logits_chunk.data, targ_chunk, div)
       IN  /\ loss' = [k \in 1..n_tokens |->
                         IF token_start_idx < k /\ k <= token_start_idx + n_tokens_chunk
                         THEN out[k - token_start_idx].loss
                         ELSE loss[k]]
           /\ logits_chunk' =
                 [logits_chunk EXCEPT !.data = [r \in 1..n_tokens_chunk |-> out[r].grad]]
           /\ logits_chunk_cast' =
                 IF storage.logits_chunk = storage.logits_chunk_cast
                 THEN [logits_chunk_cast EXCEPT
                          !.data = [r \in 1..n_tokens_chunk |-> out[r].grad]]
                 ELSE logits_chunk_cast
           /\ storage' = [storage EXCEPT !.grad_logits_chunk = storage.logits_chunk]
           /\ trace' = trace \o KernelEvents(n_tokens_chunk)
    /\ launches' = launches + 1
    /\ pc' = "assemble"
    /\ UNCHANGED <<err, argVars, grad_in_feat, grad_proj_weight, in_feat_chunk,
                   setupVars, i, ctx, ret_loss, ret_grads, grad_output, contrib,
                   launchVars, modelVars>>

\* the loop going on to the next chunk straight after the launch
KernelSkipsAssembler ==
    /\ pc = "kernel"
    /\ LET n_tokens_chunk == logits_chunk.shape[1]
           targ_chunk == Rows(targ_view.data, token_start_idx, ChunkEnd)
           out == KernelChunk(logits_chunk.data, targ_chunk, divisor)
       IN  /\ loss' = [k \in 1..n_tokens |->
                         IF token_start_idx < k /\ k <= token_start_idx + n_tokens_chunk
                         THEN out[k - token_start_idx].loss
                         ELSE loss[k]]
           /\ logits_chunk' =
                 [logits_chunk EXCEPT !.data = [r \in 1..n_tokens_chunk |-> out[r].grad]]
           /\ storage' = [storage EXCEPT !.grad_logits_chunk = storage.logits_chunk]
           /\ trace' = trace \o KernelEvents(n_tokens_chunk)
    /\ launches' = launches + 1
    /\ i' = i + 1
    /\ pc' = IF i + 1 < NumChunks THEN "project" ELSE "sum"
    /\ UNCHANGED <<err, argVars, grad_in_feat, grad_proj_weight, in_feat_chunk,
                   logits_chunk_cast, setupVars, ctx, ret_loss, ret_grads,
                   grad_output, contrib, launchVars, modelVars>>

Kernel ==
    /\ pc = "kernel"
    /\ LET n_tokens_chunk == logits_chunk.shape[1]
           targ_chunk == Rows(targ_view.data, token_start_idx, ChunkEnd)
           out == KernelChunk(logits_chunk.data, targ_chunk, divisor)
       IN  /\ loss' = [k \in 1..n_tokens |->
                         IF token_start_idx < k /\ k <= token_start_idx + n_tokens_chunk
                         THEN out[k - token_start_idx].loss
                         ELSE loss[k]]
           /\ logits_chunk' =
                 [logits_chunk EXCEPT !.data = [r \in 1..n_tokens_chunk |-> out[r].grad]]
           /\ logits_chunk_cast' =
                 IF storage.logits_chunk = storage.logits_chunk_cast
                 THEN [logits_chunk_cast EXCEPT
                          !.data = [r \in 1..n_tokens_chunk |-> out[r].grad]]
                 ELSE logits_chunk_cast
           /\ storage' = [storage EXCEPT !.grad_logits_chunk = storage.logits_chunk]
           /\ trace' = trace \o KernelEvents(n_tokens_chunk)
    /\ launches' = launches + 1
    /\ pc' = "assemble"
    /\ UNCHANGED <<err, argVars, grad_in_feat, grad_proj_weight, in_feat_chunk,
                   setupVars, i, ctx, ret_loss, ret_grads, grad_output, contrib,
                   launchVars, modelVars>>

\* the chunk's rows always written at the top of GradFeature
AssembleFeatAtZero(acc, g) ==
    LET rows == Matmul(g, proj_weight_cast, hidden_dim, dtype)
    IN  [acc EXCEPT !.data =
            [k \in 1..Len(acc.data) |->
                IF k <= Len(rows) THEN CastRow(rows[k], acc.dtype) ELSE acc.data[k]]]

\* lines 217-230: the chunk's contribution to both gradients
AssembleFeat(acc, g) ==
    LET rows == Matmul(g, proj_weight_cast, hidden_dim, dtype)
    IN  [acc EXCEPT !.data =
            [k \in 1..Len(acc.data) |->
                IF token_start_idx < k /\ k <= token_start_idx + Len(rows)
                THEN CastRow(rows[k - token_start_idx], acc.dtype)
                ELSE acc.data[k]]]

\* the weight gradient overwritten by each chunk instead of accumulated
AssembleWeightOverwrite(acc, g) ==
    [acc EXCEPT !.data =
        Addmm(ZeroRows(n_classes, hidden_dim), g, in_feat_chunk, acc.dtype)]

AssembleWeight(acc, g) ==
    [acc EXCEPT !.data = Addmm(acc.data, g, in_feat_chunk, acc.dtype)]

\* the memory of line 217: grad_logits_chunk.to(dtype)
AssembleStorage ==
    [storage EXCEPT
        !.grad_logits_chunk = To(storage.grad_logits_chunk, F32, dtype,
                                 Mem("grad_logits_chunk", i))]

AssembleEvents(n_rows) ==
    LET st == AssembleStorage
    IN  EventIf(st.grad_logits_chunk # storage.grad_logits_chunk,
                Event("alloc", i, st.grad_logits_chunk, 0, n_rows))
        \o EventIf(in_feat_view.requires_grad,
                   Event("store_feat", i, st.grad_in_feat, token_start_idx,
                         token_start_idx + n_rows))
        \o EventIf(proj_weight.requires_grad,
                   Event("addmm_out", i, st.grad_proj_weight, 0, n_classes))

Assemble ==
    /\ pc = "assemble"
    /\ LET grad_logits_chunk == CastRows(logits_chunk.data, dtype)
       IN  /\ grad_in_feat' =
                 IF in_feat_view.requires_grad
                 THEN AssembleFeat(grad_in_feat, grad_logits_chunk)
                 ELSE grad_in_feat
           /\ grad_proj_weight' =
                 IF proj_weight.requires_grad
                 THEN AssembleWeight(grad_proj_weight, grad_logits_chunk)
                 ELSE grad_proj_weight
           /\ contrib' = Append(contrib, [g |-> grad_logits_chunk, x |-> in_feat_chunk])
           /\ storage' = AssembleStorage
           /\ trace' = trace \o AssembleEvents(Len(grad_logits_chunk))
    /\ i' = i + 1
    /\ pc' = IF i + 1 < NumChunks THEN "project" ELSE "sum"
    /\ UNCHANGED <<err, argVars, loss, logits_chunk_cast, in_feat_chunk, logits_chunk,
                   setupVars, ctx, ret_loss, ret_grads, grad_output, launches,
                   launchVars, modelVars>>

\* loss.sum(); an uninitialised entry makes the sum indeterminate
SumLoss(buf) ==
    IF \E k \in 1..Len(buf) : buf[k] = Uninit THEN Uninit ELSE FSum(buf)

\* the feature gradient left in its flattened (tokens, hidden) shape
ViewAsInputFlat(g) == g

\* grad_in_feat.view(bs, seqlen, hidden_dim)
ViewAsInput(g) == [g EXCEPT !.shape = in_feat.shape]

\* ctx.save_for_backward(...) of lines 240-247, for the two flags and the two
\* gradient buffers
SaveForBackward(in_rg, w_rg, g_feat, g_weight) ==
    IF w_rg /\ in_rg
    THEN <<g_feat, g_weight>>
    ELSE IF w_rg /\ ~in_rg
    THEN <<g_weight>>
    ELSE IF ~w_rg /\ in_rg
    THEN <<g_feat>>
    ELSE <<>>

SavedTensors ==
    SaveForBackward(in_feat_view.requires_grad, proj_weight.requires_grad,
                    ViewAsInput(grad_in_feat), grad_proj_weight)

\* lines 232-249: the scalar loss and the context for backward
Finish ==
    /\ pc = "sum"
    /\ ret_loss' = SumLoss(loss)
    /\ ctx' = [set |-> TRUE,
               in_feat_requires_grad |-> in_feat_view.requires_grad,
               proj_weight_requires_grad |-> proj_weight.requires_grad,
               saved_tensors |-> SavedTensors]
    /\ grad_in_feat' =
          IF in_feat_view.requires_grad THEN ViewAsInput(grad_in_feat) ELSE grad_in_feat
    /\ pc' = "forward_computed"
    /\ UNCHANGED <<err, argVars, loss, grad_proj_weight, logits_chunk_cast,
                   in_feat_chunk, logits_chunk, setupVars, i, ret_grads, grad_output,
                   launches, memVars, launchVars, modelVars>>

\* ------------------------------------ FusedCrossEntropyLossFunction.backward
\* (saved.to(float32) * grad_output).to(float16), for a float16 gradient only
ScaleRow(r, g) == [h \in 1..Len(r) |-> CastVal(FMul(r[h], g), F16)]
\* the float16 scaling without the cast back to float16
ScaleIfHalfNoDowncast(t, g) ==
    IF ~IsNone(t) /\ t.dtype = F16
    THEN [t EXCEPT !.dtype = F32,
                   !.data = [k \in 1..Len(t.data) |->
                               [h \in 1..Len(t.data[k]) |-> FMul(t.data[k][h], g)]]]
    ELSE t

\* the scaling applied to a saved gradient of any precision
ScaleAnyDtype(t, g) ==
    IF ~IsNone(t)
    THEN [t EXCEPT !.data = [k \in 1..Len(t.data) |->
                               [h \in 1..Len(t.data[k]) |->
                                   CastVal(FMul(t.data[k][h], g), t.dtype)]]]
    ELSE t

ScaleIfHalf(t, g) ==
    IF ~IsNone(t) /\ t.dtype = F16
    THEN [t EXCEPT !.data = [k \in 1..Len(t.data) |-> ScaleRow(t.data[k], g)]]
    ELSE t

\* the unpacking that hands a single saved tensor to the other input's slot
UnpackSwapped(in_rg, w_rg, saved) ==
    IF in_rg /\ w_rg
    THEN [grad_in_feat |-> saved[1], grad_proj_weight |-> saved[2]]
    ELSE IF ~in_rg /\ w_rg
    THEN [grad_in_feat |-> saved[1], grad_proj_weight |-> None]
    ELSE IF in_rg /\ ~w_rg
    THEN [grad_in_feat |-> None, grad_proj_weight |-> saved[1]]
    ELSE [grad_in_feat |-> None, grad_proj_weight |-> None]

\* the unpacking of ctx.saved_tensors, lines 254-260
Unpack(in_rg, w_rg, saved) ==
    IF in_rg /\ w_rg
    THEN [grad_in_feat |-> saved[1], grad_proj_weight |-> saved[2]]
    ELSE IF ~in_rg /\ w_rg
    THEN [grad_in_feat |-> None, grad_proj_weight |-> saved[1]]
    ELSE IF in_rg /\ ~w_rg
    THEN [grad_in_feat |-> saved[1], grad_proj_weight |-> None]
    ELSE [grad_in_feat |-> None, grad_proj_weight |-> None]

UnpackSaved ==
    Unpack(ctx.in_feat_requires_grad, ctx.proj_weight_requires_grad, ctx.saved_tensors)

BackwardResult(upstream) ==
    <<ScaleIfHalf(UnpackSaved.grad_in_feat, upstream),
      ScaleIfHalf(UnpackSaved.grad_proj_weight, upstream),
      None, None, None, None>>

\* upstream gradients of the scalar loss (float32)
GradOutputs == {ONE, ONE \div 4 + ONE \div 8}

\* backward that leaves the graph and its saved tensors in place
BackwardRetain ==
    /\ pc = "forward_computed"
    /\ in_feat.requires_grad \/ proj_weight.requires_grad
    /\ \E g \in GradOutputs :
         /\ grad_output' = g
         /\ ret_grads' = BackwardResult(g)
    /\ UNCHANGED <<pc, ctx, err, argVars, bufVars, setupVars, i, ret_loss, launches,
                   memVars, launchVars, modelVars>>

\* autograd runs backward once, and only for a loss that requires grad, i.e.
\* when one of the tensors given to apply() does; the saved tensors are freed
\* when it returns
Backward ==
    /\ pc = "forward_computed"
    /\ in_feat.requires_grad \/ proj_weight.requires_grad
    /\ \E g \in GradOutputs :
         /\ grad_output' = g
         /\ ret_grads' = BackwardResult(g)
    /\ ctx' = [ctx EXCEPT !.saved_tensors = <<>>]
    /\ pc' = "backward_consumed"
    /\ UNCHANGED <<err, argVars, bufVars, setupVars, i, ret_loss, launches,
                   memVars, launchVars, modelVars>>

\* ------------------------------------------ fused_cel_layer, lines 289-339
Layer ==
    /\ pc = "layer"
    /\ LET a == LayerArgs(hidden_states, labels, n_loop_iters, ignore_index)
       IN  /\ in_feat' = a.x
           /\ targ' = a.labels
    /\ pc' = "linear"
    /\ UNCHANGED <<err, hidden_states, labels, proj_weight, n_loop_iters, ignore_index,
                   reduction, autocast, bufVars, setupVars, i, ctx, ret_loss,
                   ret_grads, grad_output, launches, memVars, launchVars, modelVars>>

\* ------------------- one kernel launch (lines 201-215), program by program
\* The launch starts grid.n_rows programs, one per row of the chunk; each loads
\* its row, stores its loss, then stores its gradient row over the logits it
\* loaded (grad_logits_chunk is logits_chunk).  Programs run in any order.
NoGrid == [n_rows |-> 0, n_cols |-> 0, stride |-> 0, BLOCK_SIZE |-> 0, targ |-> <<>>,
           divisor |-> 0, ignore_index |-> 0, logits |-> <<>>]
NoGpuMem == [logits |-> <<>>, loss |-> <<>>]
NoProgram == [pc |-> "load", x |-> <<>>]
NoAccess == [reads |-> {}, writes |-> {}, loss_writes |-> {}]

ProgramIds == 0..(grid.n_rows - 1)
\* logit_row_start_ptr / logit_grad_row_start_ptr, as an offset into the buffer
RowBase(row_idx) == row_idx * grid.stride

\* lines 47-64
Load(row_idx) ==
    /\ programs[row_idx].pc = "load"
    /\ programs' = [programs EXCEPT ![row_idx] =
            [pc |-> "store_loss",
             x  |-> MaskedLoad(gpu_mem.logits, RowBase(row_idx), grid.n_cols,
                               grid.BLOCK_SIZE)]]
    /\ accesses' = [accesses EXCEPT ![row_idx].reads =
            LoadAddrs(RowBase(row_idx), grid.n_cols, grid.BLOCK_SIZE)]
    /\ UNCHANGED <<grid, gpu_mem, fwdVars, modelVars>>

ProgramOut(row_idx) ==
    KernelCompute(programs[row_idx].x, grid.targ[row_idx + 1], grid.divisor,
                  grid.ignore_index, grid.BLOCK_SIZE)

\* lines 66-79
StoreLoss(row_idx) ==
    /\ programs[row_idx].pc = "store_loss"
    /\ gpu_mem' = [gpu_mem EXCEPT !.loss[row_idx + 1] = ProgramOut(row_idx).loss]
    /\ programs' = [programs EXCEPT ![row_idx].pc = "store_grad"]
    /\ accesses' = [accesses EXCEPT ![row_idx].loss_writes = {row_idx}]
    /\ UNCHANGED <<grid, fwdVars, modelVars>>

\* lines 81-86
StoreGrad(row_idx) ==
    /\ programs[row_idx].pc = "store_grad"
    /\ LET base  == RowBase(row_idx)
           addrs == StoreAddrs(base, grid.n_cols, grid.BLOCK_SIZE)
           grad  == ProgramOut(row_idx).grad
       IN  /\ gpu_mem' = [gpu_mem EXCEPT !.logits =
                  [a \in 1..Len(gpu_mem.logits) |->
                      IF (a - 1) \in addrs THEN grad[a - base]
                      ELSE gpu_mem.logits[a]]]
           /\ accesses' = [accesses EXCEPT ![row_idx].writes = addrs]
    /\ programs' = [programs EXCEPT ![row_idx].pc = "done"]
    /\ UNCHANGED <<grid, fwdVars, modelVars>>

RowLoad      == \E row_idx \in ProgramIds : Load(row_idx)
RowStoreLoss == \E row_idx \in ProgramIds : StoreLoss(row_idx)
RowStoreGrad == \E row_idx \in ProgramIds : StoreGrad(row_idx)

\* ------------------------ patch_model and LlamaForCausalLMFusedCEL.forward
FusedCELConfig(use_fused_cel, iters, ignore, red) ==
    [use_fused_cel |-> use_fused_cel, n_loop_iters |-> iters,
     ignore_index |-> ignore, reduction |-> red]
\* a config object that has no fused_cel attribute
NoFusedCEL == FusedCELConfig(FALSE, 0, 0, "none")
NoCall == [n_loop_iters |-> 0, ignore_index |-> 0, reduction |-> "none"]
WrapperReady == [pc |-> "ready", err |-> "none", labels |-> FALSE,
                 return_dict |-> FALSE, call |-> NoCall, loss |-> "unbound",
                 logits |-> "unbound"]

patch_model(config, use_fused_cel, fused_cel_n_loop_iters, fused_cel_ignore_index, fused_cel_reduction) ==
    [config EXCEPT !.has_fused_cel = TRUE,
                   !.fused_cel = FusedCELConfig(use_fused_cel, fused_cel_n_loop_iters,
                                                fused_cel_ignore_index,
                                                fused_cel_reduction)]

\* the values patch_model is called with
PatchIters == {1, 2, 4}
PatchIgnore == {-100, -1}
PatchReductions == {"mean", "sum"}

PatchModel ==
    /\ wrapper.pc = "ready"
    /\ \E u \in BOOLEAN, k \in PatchIters, g \in PatchIgnore, r \in PatchReductions :
          model_config' = patch_model(model_config, u, k, g, r)
    /\ UNCHANGED <<wrapper, fwdVars, launchVars>>

\* the keyword arguments of the fused_cel_layer call, lines 402-409
FusedCallArgs(config) ==
    [n_loop_iters |-> config.fused_cel.n_loop_iters,
     ignore_index |-> config.fused_cel.ignore_index,
     reduction    |-> "mean"]

\* lines 386-441 for one call; has_labels: labels is not None
WrapperResult(config, has_labels, return_dict) ==
    LET base == [WrapperReady EXCEPT !.labels = has_labels, !.return_dict = return_dict]
    IN  IF config.pretraining_tp > 1
        THEN \* loss is never bound on this branch; line 433 / 436 reads it
             [base EXCEPT !.pc = "error", !.err = "UnboundLocalError",
                          !.logits = "tensor"]
        ELSE IF config.has_fused_cel /\ config.fused_cel.use_fused_cel
        THEN IF ~has_labels
             THEN [base EXCEPT !.pc = "error", !.err = "labels_none"]
             ELSE [base EXCEPT !.pc = "returned", !.call = FusedCallArgs(config),
                               !.loss = "fused", !.logits = "None"]
        ELSE [base EXCEPT !.pc = "returned", !.logits = "tensor",
                          !.loss = IF has_labels THEN "cross_entropy" ELSE "None"]

ModelForward ==
    /\ wrapper.pc = "ready"
    /\ \E has_labels \in BOOLEAN, return_dict \in BOOLEAN :
          wrapper' = WrapperResult(model_config, has_labels, return_dict)
    /\ UNCHANGED <<model_config, fwdVars, launchVars>>

\* ------------------------------------------------------------ initial states
\* feature rows and label values the inputs are drawn from
FeatRows(hd) ==
    IF hd = 1 THEN {<<ONE>>, <<2 * ONE>>} ELSE {<<ONE, 0>>, <<ONE, 2 * ONE>>}
DataLabels(ignore) == {ignore, 1}
LayerLabels(ignore) == {ignore, 2}
WeightA == Param(<<3, 1>>, F32, TRUE, <<<<0>>, <<ONE>>, <<2 * ONE>>>>)
WeightB == Param(<<2, 2>>, F32, TRUE, <<<<ONE, -ONE>>, <<0, ONE>>>>)
NoLabels == [shape |-> <<>>, data |-> <<>>]

InitLocals ==
    /\ err = "none"
    /\ dtype = "None"
    /\ loss = <<>>
    /\ grad_in_feat = None
    /\ grad_proj_weight = None
    /\ divisor = 0
    /\ proj_weight_cast = <<>>
    /\ loop_chunk_size = 0
    /\ logits_chunk_cast = None
    /\ in_feat_chunk = <<>>
    /\ logits_chunk = None
    /\ i = 0
    /\ ctx = NoCtx
    /\ ret_loss = Uninit
    /\ ret_grads = <<>>
    /\ grad_output = 0
    /\ launches = 0
    /\ storage = NoStorage
    /\ trace = <<>>
    /\ contrib = <<>>

\* fused_cel_linear on float32 tensors that both require grad: every token
\* count, chunk count, reduction and label/feature assignment
InitData ==
    /\ pc = "linear"
    /\ hidden_states = NoParam
    /\ labels = NoLabels
    /\ ignore_index = -100
    /\ autocast = "off"
    /\ proj_weight = WeightA
    /\ \E n \in 1..MaxTokens :
         /\ \E d \in [1..n -> FeatRows(1)] : in_feat = Param(<<1, n, 1>>, F32, TRUE, d)
         /\ \E t \in [1..n -> DataLabels(-100)] : targ = [shape |-> <<1, n>>, data |-> t]
    /\ n_loop_iters \in 1..MaxTokens
    /\ reduction \in {"mean", "sum"}
    /\ InitLocals

\* fused_cel_linear on two tokens: every combination of the requires_grad
\* flags, of autocast and of the storage formats
InitBridge ==
    /\ pc = "linear"
    /\ hidden_states = NoParam
    /\ labels = NoLabels
    /\ ignore_index \in {-100, -1}
    /\ autocast \in {"off", F16, BF16}
    /\ \E wd \in {F32, F16}, wr \in BOOLEAN :
         proj_weight = [WeightB EXCEPT !.dtype = wd, !.requires_grad = wr]
    /\ \E sh \in {<<1, 2, 2>>, <<2, 1, 2>>}, fd \in Dtypes, fr \in BOOLEAN,
          r \in FeatRows(2) :
         in_feat = Param(sh, fd, fr, <<<<ONE, 2 * ONE>>, r>>)
    /\ \E t \in {<<0, ignore_index>>, <<1, 0>>} : targ = [shape |-> <<2>>, data |-> t]
    /\ n_loop_iters \in {1, 2}
    /\ reduction = "mean"
    /\ InitLocals

\* fused_cel_linear with arguments the checks of forward reject
InitErr ==
    /\ pc = "linear"
    /\ hidden_states = NoParam
    /\ labels = NoLabels
    /\ ignore_index = -100
    /\ autocast = "off"
    /\ \E sh \in {<<3>>, <<3, 1>>, <<3, 1, 1>>} : proj_weight = [WeightA EXCEPT !.shape = sh]
    /\ \E sh \in {<<2, 1>>, <<1, 2, 1>>, <<1, 1, 2, 1>>} :
         in_feat = Param(sh, F32, TRUE, <<<<ONE>>, <<2 * ONE>>>>)
    /\ \E t \in {<<0, 2>>, <<0, 2, 0>>, <<2>>}, r \in {1, 2} :
         targ = [shape |-> IF r = 1 THEN <<Len(t)>> ELSE <<1, Len(t)>>, data |-> t]
    /\ n_loop_iters \in -1..3
    /\ reduction \in {"mean", "sum", "none"}
    /\ InitLocals

\* fused_cel_layer on (bs, L) labels and (bs, L, 1) hidden states, L >= 2
InitLayer ==
    /\ pc = "layer"
    /\ in_feat = NoParam
    /\ targ = NoLabels
    /\ ignore_index = -100
    /\ autocast = "off"
    /\ proj_weight = WeightA
    /\ \E bs \in 1..MaxTokens, L \in 2..MaxTokens :
         /\ bs * L <= MaxTokens
         /\ \E d \in [1..(bs * L) -> FeatRows(1)] :
               hidden_states = Param(<<bs, L, 1>>, F32, TRUE, d)
         /\ \E t \in [1..(bs * L) -> LayerLabels(-100)] :
               labels = [shape |-> <<bs, L>>, data |-> t]
    /\ n_loop_iters \in 0..2
    /\ reduction = "mean"
    /\ InitLocals

\* labels for a weight of v classes: the first padding column, the first
\* column past the block, a negative label that is not ignore_index, a valid one
OutOfRangeLabels(v) == {v, next_power_of_2(v), -1, 1}

\* fused_cel_linear on two float32 tokens whose labels may lie outside
\* [0, n_classes)
InitOutOfRange ==
    /\ pc = "linear"
    /\ hidden_states = NoParam
    /\ labels = NoLabels
    /\ ignore_index = -100
    /\ autocast = "off"
    /\ proj_weight = WeightA
    /\ \E d \in [1..2 -> FeatRows(1)] : in_feat = Param(<<1, 2, 1>>, F32, TRUE, d)
    /\ \E t \in [1..2 -> OutOfRangeLabels(WeightA.shape[1])] :
          targ = [shape |-> <<1, 2>>, data |-> t]
    /\ n_loop_iters \in {1, 2}
    /\ reduction \in {"mean", "sum"}
    /\ InitLocals

\* no kernel launch of its own, no model call: the state of the variables
\* the other two specifications use
IdleLaunch ==
    /\ grid = NoGrid
    /\ gpu_mem = NoGpuMem
    /\ programs = <<>>
    /\ accesses = <<>>
IdleModel ==
    /\ model_config = [pretraining_tp |-> 1, has_fused_cel |-> FALSE,
                       fused_cel |-> NoFusedCEL]
    /\ wrapper = [WrapperReady EXCEPT !.pc = "idle"]
IdleForward ==
    /\ pc = "idle"
    /\ hidden_states = NoParam
    /\ labels = NoLabels
    /\ in_feat = NoParam
    /\ proj_weight = NoParam
    /\ targ = NoLabels
    /\ n_loop_iters = 1
    /\ ignore_index = -100
    /\ reduction = "mean"
    /\ autocast = "off"
    /\ InitLocals

Init ==
    /\ InitData \/ InitBridge \/ InitErr \/ InitLayer \/ InitOutOfRange
    /\ IdleLaunch
    /\ IdleModel

Next == Layer \/ Enter \/ Project \/ Kernel \/ Assemble \/ Finish \/ Backward

Spec == Init /\ [][Next]_vars

\* one launch of the kernel on a (n_rows, n_cols) float32 buffer
LogitRows(n_cols) ==
    IF n_cols = 2
    THEN {<<0, ONE>>, <<-ONE, ONE \div 2>>}
    ELSE {<<0, ONE, 2 * ONE>>, <<3 * ONE, -ONE, ONE \div 2>>}
LaunchTargets(n_cols) == {-100, 0, n_cols - 1}
LaunchDivisors == {ONE, 3 * ONE}
Flatten(rows, n_cols) ==
    [a \in 1..(Len(rows) * n_cols) |-> rows[((a - 1) \div n_cols) + 1][((a - 1) % n_cols) + 1]]

LaunchInit ==
    /\ \E n \in 1..MaxRows, v \in {2, 3} :
         \E rows \in [1..n -> LogitRows(v)], t \in [1..n -> LaunchTargets(v)],
            d \in LaunchDivisors :
            /\ grid = [n_rows |-> n, n_cols |-> v, stride |-> v,
                       BLOCK_SIZE |-> next_power_of_2(v), targ |-> t, divisor |-> d,
                       ignore_index |-> -100, logits |-> rows]
            /\ gpu_mem = [logits |-> Flatten(rows, v), loss |-> [k \in 1..n |-> Uninit]]
            /\ programs = [r \in 0..(n - 1) |-> NoProgram]
            /\ accesses = [r \in 0..(n - 1) |-> NoAccess]
    /\ IdleForward
    /\ IdleModel

LaunchNext == RowLoad \/ RowStoreLoss \/ RowStoreGrad

KernelSpec == LaunchInit /\ [][LaunchNext]_vars

\* a model before patch_model, with either tensor-parallel setting
ModelInit ==
    /\ \E tp \in {1, 2} :
          model_config = [pretraining_tp |-> tp, has_fused_cel |-> FALSE,
                          fused_cel |-> NoFusedCEL]
    /\ wrapper = WrapperReady
    /\ IdleForward
    /\ IdleLaunch

ModelNext == PatchModel \/ ModelForward

ModelSpec == ModelInit /\ [][ModelNext]_vars

\* ===================================================================== claims
Entered == pc \notin {"layer", "linear"}
Running == Entered /\ pc # "error"
TokenCount == in_feat.shape[1] * in_feat.shape[2]
Ignored(k) == targ.data[k] = ignore_index
ZeroRow(r) == \A h \in 1..Len(r) : r[h] = 0

\* every check of forward other than divisibility passes
OtherChecksPass ==
    /\ Rank(in_feat) = 3
    /\ Rank(proj_weight) = 2
    /\ TokenCount = Prod(targ.shape)
    /\ reduction \in {"mean", "sum"}
    /\ n_loop_iters > 0

\* ceil(a / b) stated without the code's formula
Ceil(a, b) == CHOOSE q \in 0..a : q * b >= a /\ (q - 1) * b < a

\* C1: when the token count N is not divisible by the chunk count K > 0,
\* forward ends in the divisibility error and nothing is processed; when it
\* runs, N is divisible by K, the chunk size is ceil(N/K) = N/K, every chunk
\* has exactly that many rows and exactly K chunks are processed.
C1_ChunkSizeDivides ==
    /\ (Entered /\ OtherChecksPass /\ TokenCount % n_loop_iters # 0)
          => (pc = "error" /\ err = "divisible" /\ launches = 0 /\ loss = <<>>)
    /\ Running =>
          /\ TokenCount % n_loop_iters = 0
          /\ loop_chunk_size = Ceil(TokenCount, n_loop_iters)
          /\ loop_chunk_size * n_loop_iters = TokenCount
    /\ pc \in {"kernel", "assemble"} =>
          /\ Len(in_feat_chunk) = loop_chunk_size
          /\ logits_chunk.shape[1] = loop_chunk_size
    /\ pc \in {"sum", "forward_computed", "backward_consumed"} => launches = n_loop_iters

C1_Witness == pc = "error" /\ err = "divisible" /\ n_loop_iters = 3 /\ TokenCount = 4

\* forward with chunk count 1: the whole batch as one chunk
OneChunkFeat == CastRows(in_feat_view.data, ComputeDtype)
OneChunkWeight == CastRows(proj_weight.data, ComputeDtype)
OneChunkLogits == MatmulT(OneChunkFeat, OneChunkWeight, ComputeDtype)
OneChunkOut == KernelChunk(OneChunkLogits, targ_view.data, ComputeDivisor)
OneChunkLoss ==
    LET out == OneChunkOut IN FSum([k \in 1..n_tokens |-> out[k].loss])
OneChunkGrads ==
    LET out == OneChunkOut
    IN  CastRows([k \in 1..n_tokens |-> out[k].grad], ComputeDtype)
OneChunkGradFeat ==
    CastRows(Matmul(OneChunkGrads, OneChunkWeight, hidden_dim, ComputeDtype), in_feat.dtype)
OneChunkGradWeight ==
    Addmm(ZeroRows(n_classes, hidden_dim), OneChunkGrads, OneChunkFeat, ComputeDtype)

\* C2: chunk invariance: whatever chunk count K dividing N forward ran with,
\* the loss, the feature gradient and the weight gradient it ends with are
\* those of the same inputs processed as a single chunk.
C2_ChunkInvariance ==
    pc = "forward_computed" =>
        /\ ret_loss = OneChunkLoss
        /\ ~IsNone(grad_in_feat) => grad_in_feat.data = OneChunkGradFeat
        /\ ~IsNone(grad_proj_weight) => grad_proj_weight.data = OneChunkGradWeight

C2_Witness ==
    /\ pc = "forward_computed"
    /\ n_loop_iters = 2
    /\ loop_chunk_size = 2
    /\ ~Ignored(1) /\ ~Ignored(4)
    /\ ~IsNone(grad_proj_weight)
    /\ \E c \in 1..n_classes : ~ZeroRow(grad_proj_weight.data[c])

\* indices of the tokens whose label is not ignore_index, in order
KeptTokens ==
    LET Keep(k) == ~Ignored(k)
    IN  SelectSeq([k \in 1..n_tokens |-> k], Keep)

\* C3: a row whose target is ignore_index gets loss 0 and an all-zero
\* gradient row from the kernel, whatever its logits and the divisor (zero
\* included); its GradFeature row stays zero, and the total loss and
\* GradWeight are those of the non-ignored rows alone.
C3_Masking ==
    /\ pc = "assemble" =>
          \A r \in 1..Len(logits_chunk.data) :
              Ignored(token_start_idx + r) =>
                  /\ loss[token_start_idx + r] = 0
                  /\ ZeroRow(logits_chunk.data[r])
    /\ pc \in {"sum", "forward_computed"} =>
          \A k \in 1..n_tokens :
              Ignored(k) =>
                  /\ loss[k] = 0
                  /\ ~IsNone(grad_in_feat) => ZeroRow(grad_in_feat.data[k])
    /\ pc = "forward_computed" =>
          LET kept  == KeptTokens
              grads == OneChunkGrads
              feats == OneChunkFeat
          IN  /\ ret_loss = FSum([j \in 1..Len(kept) |-> loss[kept[j]]])
              /\ ~IsNone(grad_proj_weight) =>
                    grad_proj_weight.data =
                        Addmm(ZeroRows(n_classes, hidden_dim),
                              [j \in 1..Len(kept) |-> grads[kept[j]]],
                              [j \in 1..Len(kept) |-> feats[kept[j]]],
                              ComputeDtype)

C3_Witness ==
    /\ pc = "assemble"
    /\ Len(logits_chunk.data) = 2
    /\ Ignored(token_start_idx + 1)
    /\ ~Ignored(token_start_idx + 2)
    /\ in_feat_chunk[1] # in_feat_chunk[2]
    /\ ~ZeroRow(logits_chunk.data[2])

\* the per-token losses before any reduction (divisor 1)
UnreducedLosses ==
    LET logits == OneChunkLogits
    IN  [k \in 1..TokenCount |->
            KernelRow(logits[k], targ.data[k], ONE, n_classes, ignore_index,
                      BLOCK_SIZE).loss]

\* C4: through the whole loop the divisor is the one computed over all N
\* labels: their non-ignored count for "mean", 1 for "sum"; the returned
\* loss is the sum of the per-token losses, each divided by that divisor.
C4_Reduction ==
    /\ Running =>
          divisor = IF reduction = "mean"
                    THEN ONE * Cardinality({k \in 1..Len(targ.data) : ~Ignored(k)})
                    ELSE ONE
    /\ pc = "forward_computed" =>
          LET raw == UnreducedLosses
          IN  ret_loss = FSum([k \in 1..TokenCount |->
                                 IF Ignored(k) THEN 0 ELSE FDiv(raw[k], divisor)])

C4_Witness ==
    /\ pc = "forward_computed"
    /\ reduction = "mean"
    /\ n_loop_iters = 2
    /\ TokenCount = 4
    /\ divisor = 3 * ONE
    /\ Ignored(2)
    /\ ret_loss > 0

\* the configuration errors of the taxonomy
ConfigurationError == ~OtherChecksPass \/ TokenCount % n_loop_iters # 0

C6_GradOnlyIfRequired ==
    /\ Running =>
          /\ IsNone(grad_in_feat) <=> ~in_feat.requires_grad
          /\ IsNone(grad_proj_weight) <=> ~proj_weight.requires_grad
    /\ pc = "forward_computed" =>
          /\ ctx.in_feat_requires_grad <=> in_feat.requires_grad
          /\ ctx.proj_weight_requires_grad <=> proj_weight.requires_grad
    /\ pc = "backward_consumed" =>
          /\ IsNone(ret_grads[1]) <=> ~in_feat.requires_grad
          /\ IsNone(ret_grads[2]) <=> ~proj_weight.requires_grad

\* C7: backward returns six values; those at the positions of labels, chunk
\* count, ignore index and reduction are None; a gradient at position 1 has
\* the caller's (batch, sequence, hidden) shape with one row per token, one
\* at position 2 the weight's shape.
C7_SixValues ==
    pc = "backward_consumed" =>
        /\ Len(ret_grads) = 6
        /\ \A k \in 3..6 : IsNone(ret_grads[k])
        /\ ~IsNone(ret_grads[1]) =>
              /\ ret_grads[1].shape = in_feat.shape
              /\ Len(ret_grads[1].data) = in_feat.shape[1] * in_feat.shape[2]
              /\ \A k \in 1..Len(ret_grads[1].data) :
                    Len(ret_grads[1].data[k]) = in_feat.shape[3]
        /\ ~IsNone(ret_grads[2]) =>
              /\ ret_grads[2].shape = proj_weight.shape
              /\ Len(ret_grads[2].data) = proj_weight.shape[1]

C7_Witness ==
    /\ pc = "backward_consumed"
    /\ in_feat.shape = <<2, 1, 2>>
    /\ ~IsNone(ret_grads[1])
    /\ ~IsNone(ret_grads[2])

\* downcast(upcast32(saved) * upstream), element by element
Upcast32(x)   == CastVal(x, F32)
Downcast16(x) == CastVal(x, F16)
HalfScaled(t, g) ==
    [shape |-> t.shape, dtype |-> F16,
     data |-> [k \in 1..Len(t.data) |->
                 [h \in 1..Len(t.data[k]) |-> Downcast16(FMul(Upcast32(t.data[k][h]), g))]]]

NonIgnoredPairs(a) ==
    LET Lx == a.x.shape[2]
    IN  {<<(k - 1) \div Lx, (k - 1) % Lx, a.x.data[k], a.labels.data[k]>> :
            k \in {j \in 1..Len(a.labels.data) : a.labels.data[j] # ignore_index}}

FromLayer == hidden_states.dtype # "None"

\* C10: after fused_cel_layer's shifting, features and labels have equal
\* token counts and the feature at position i of each sequence is paired
\* with the label originally at position i+1, for every i < L-1; the padded
\* convention pairs the last feature with ignore_index; both conventions
\* yield the same set of non-ignored (feature, label) pairs.
C10_LabelShift ==
    /\ (FromLayer /\ pc # "layer") =>
          LET bs == hidden_states.shape[1]
              L  == hidden_states.shape[2]
              Lx == in_feat.shape[2]
          IN  /\ in_feat.shape[1] * in_feat.shape[2] = Prod(targ.shape)
              /\ Len(in_feat.data) = Len(targ.data)
              /\ Lx = IF n_loop_iters > 1 THEN L ELSE L - 1
              /\ \A b \in 0..(bs - 1), p \in 0..(L - 2) :
                    /\ in_feat.data[b * Lx + p + 1] = hidden_states.data[b * L + p + 1]
                    /\ targ.data[b * Lx + p + 1] = labels.data[b * L + p + 2]
              /\ n_loop_iters > 1 =>
                    \A b \in 0..(bs - 1) : targ.data[b * Lx + L] = ignore_index
    /\ FromLayer =>
          NonIgnoredPairs(LayerArgs(hidden_states, labels, 2, ignore_index))
              = NonIgnoredPairs(LayerArgs(hidden_states, labels, 1, ignore_index))

C10_Witness ==
    /\ pc = "linear"
    /\ FromLayer
    /\ hidden_states.shape = <<2, 2, 1>>
    /\ n_loop_iters = 2
    /\ targ.data[1] # ignore_index /\ targ.data[3] # ignore_index
    /\ hidden_states.data[1] # hidden_states.data[2]

\* ---------------------------------------------------------------------------
\* the in-place writes logged so far
Writes(tr) == {k \in 1..Len(tr) : tr[k].op # "alloc"}

\* C11: no step of forward or backward changes the projection weight, the
\* caller's features or the caller's labels (values, shapes, flags), and no
\* in-place write of forward goes to memory of a tensor the caller handed in;
\* what the caller sees change is ret_loss and ret_grads alone.
C11_Frame ==
    [][/\ proj_weight' = proj_weight
       /\ hidden_states' = hidden_states
       /\ labels' = labels
       /\ pc # "layer" => (in_feat' = in_feat /\ targ' = targ)
       /\ <<n_loop_iters, ignore_index, reduction, autocast>>'
             = <<n_loop_iters, ignore_index, reduction, autocast>>
       /\ \A k \in Writes(trace') : trace'[k].buf \notin CallerMem]_vars

C11_Witness ==
    /\ pc = "backward_consumed"
    /\ storage.proj_weight_cast = Mem("proj_weight", 0)
    /\ storage.in_feat_chunk = Mem("in_feat", 0)
    /\ \E k \in Writes(trace) : trace[k].op = "addmm_out" /\ trace[k].chunk = 1
    /\ \E k \in Writes(trace) : trace[k].op = "store_feat" /\ trace[k].chunk = 1
    /\ ~IsNone(ret_grads[1]) /\ ~IsNone(ret_grads[2])

\* ------------------------------------------------ claims about one launch
Done(r) == programs[r].pc = "done"
AllDone == grid.n_rows > 0 /\ \A r \in ProgramIds : Done(r)
\* the gradient row program r left in the buffer
StoredGrad(r) == [k \in 1..grid.n_cols |-> gpu_mem.logits[RowBase(r) + k]]
\* constants added to every logit of a row
Shifts == {ONE \div 2, -(3 * ONE), 5 * ONE + ONE \div 4}
ShiftRow(row, c) == [k \in 1..Len(row) |-> FAdd(row[k], c)]

\* C12: shift invariance: the loss and the gradient row a program stored for
\* its row are those the kernel computes for the same row with a constant
\* added to every logit, whatever the target and the divisor.
C12_ShiftInvariance ==
    \A r \in ProgramIds :
        Done(r) =>
            \A c \in Shifts :
                LET out == KernelRow(ShiftRow(grid.logits[r + 1], c), grid.targ[r + 1],
                                     grid.divisor, grid.n_cols, grid.ignore_index,
                                     grid.BLOCK_SIZE)
                IN  /\ out.loss = gpu_mem.loss[r + 1]
                    /\ out.grad = StoredGrad(r)

C12_Witness ==
    /\ AllDone
    /\ grid.n_cols = 3
    /\ grid.logits[1] = <<3 * ONE, -ONE, ONE \div 2>>
    /\ grid.targ[1] = 2
    /\ grid.divisor = 3 * ONE
    /\ gpu_mem.loss[1] > 0 /\ IsFin(gpu_mem.loss[1])
    /\ StoredGrad(0)[3] < 0

\* the closed form over the vocabSize logits of a row (no padding lanes)
RowMaxOf(x) == CHOOSE m \in {x[j] : j \in 1..Len(x)} : \A j \in 1..Len(x) : x[j] <= m
ExpTerms(x) == [j \in 1..Len(x) |-> FExp(x[j] - RowMaxOf(x))]
LogSumExp(x) == FLog(FSum(ExpTerms(x)))
Softmax(x) == LET e == ExpTerms(x) IN [j \in 1..Len(x) |-> FDiv(e[j], FSum(e))]
ClosedFormLoss(x, t, div) == FDiv(LogSumExp(x) - (x[t + 1] - RowMaxOf(x)), div)
ClosedFormGrad(x, t, div) ==
    LET p == Softmax(x)
    IN  [j \in 1..Len(x) |-> FDiv(p[j] - (IF j = t + 1 THEN ONE ELSE 0), div)]
ValidTarget(t) == 0 <= t /\ t < grid.n_cols /\ t # grid.ignore_index

\* C13: for a row whose target t is a valid class, the loss the program
\* stored is (log(sum_j exp(x_j - max x)) - (x_t - max x)) / divisor and the
\* gradient row it stored is (softmax(x) - oneHot(t)) / divisor.
C13_ClosedForm ==
    \A r \in ProgramIds :
        (Done(r) /\ ValidTarget(grid.targ[r + 1])) =>
            /\ gpu_mem.loss[r + 1] =
                  ClosedFormLoss(grid.logits[r + 1], grid.targ[r + 1], grid.divisor)
            /\ StoredGrad(r) =
                  ClosedFormGrad(grid.logits[r + 1], grid.targ[r + 1], grid.divisor)

C13_Witness ==
    /\ AllDone
    /\ grid.n_rows = 2
    /\ grid.logits[2] = <<0, ONE, 2 * ONE>>
    /\ grid.targ[2] = 2
    /\ grid.divisor = ONE
    /\ gpu_mem.loss[2] = LogSumExp(<<0, ONE, 2 * ONE>>)
    /\ gpu_mem.loss[2] > 0
    /\ StoredGrad(1)[1] > 0 /\ StoredGrad(1)[3] < 0

\* ------------------------------------------------ claims about the loop
\* the component a logged write belongs to: 1 Logit Projector, 2 Fused
\* Loss/Grad Kernel, 3 Gradient Backprop Assembler
Stage(e) ==
    IF e.op = "matmul_out" THEN 1
    ELSE IF e.op \in {"store_loss", "store_grad"} THEN 2
    ELSE 3
StagesOf(tr, j) == {Stage(tr[k]) : k \in {w \in Writes(tr) : tr[w].chunk = j}}
InLoop == pc \in {"project", "kernel", "assemble"}

\* C14: the writes of the loop happen chunk by chunk: a later write belongs
\* to the same chunk and the same or a later component (Projector, Kernel,
\* Assembler), or to a later chunk; when a chunk starts, every earlier chunk
\* has been through all three components, and the chunk in progress is the
\* only one with a component missing, so writes into GradFeature/GradWeight
\* come from one chunk at a time.
C14_Sequential ==
    Running =>
        /\ \A a, b \in Writes(trace) :
              a < b =>
                  \/ trace[a].chunk < trace[b].chunk
                  \/ /\ trace[a].chunk = trace[b].chunk
                     /\ Stage(trace[a]) <= Stage(trace[b])
        /\ \A j \in 0..(i - 1) : StagesOf(trace, j) = {1, 2, 3}
        /\ \A k \in Writes(trace) : trace[k].chunk \in 0..i
        /\ StagesOf(trace, i) =
              IF pc = "kernel" THEN {1}
              ELSE IF pc = "assemble" THEN {1, 2}
              ELSE {}
        /\ InLoop => i < n_loop_iters
        /\ ~InLoop => i = n_loop_iters

C14_Witness ==
    /\ pc = "assemble"
    /\ i = 2
    /\ n_loop_iters = 4
    /\ StagesOf(trace, 1) = {1, 2, 3}
    /\ \E k \in Writes(trace) : trace[k].op = "addmm_out" /\ trace[k].chunk = 1

\* the logged loss stores that cover entry k (counted from 0) of the buffer
LossWritesAt(k) ==
    {w \in Writes(trace) :
        trace[w].op = "store_loss" /\ trace[w].lo <= k /\ k < trace[w].hi}
\* the chunks whose launch has happened
Launched == IF pc = "project" \/ pc = "kernel" THEN 0..(i - 1)
            ELSE IF pc = "assemble" THEN 0..i
            ELSE 0..(n_loop_iters - 1)

\* C16: the launch of chunk j stores losses at [j*chunkSize, (j+1)*chunkSize)
\* of the loss buffer and nowhere else; these ranges are pairwise disjoint and
\* cover [0, N); an entry holds an uninitialised value until its one store,
\* and when the buffer is summed every entry has been stored exactly once.
C16_LossCoverage ==
    Running =>
        /\ \A w \in Writes(trace) :
              trace[w].op = "store_loss" =>
                  /\ trace[w].buf = storage.loss
                  /\ trace[w].lo = trace[w].chunk * loop_chunk_size
                  /\ trace[w].hi = (trace[w].chunk + 1) * loop_chunk_size
                  /\ trace[w].hi <= TokenCount
        /\ \A k \in 0..(TokenCount - 1) :
              /\ Cardinality(LossWritesAt(k)) =
                    IF (k \div loop_chunk_size) \in Launched THEN 1 ELSE 0
              /\ \A w \in LossWritesAt(k) : trace[w].chunk = k \div loop_chunk_size
              /\ (loss[k + 1] = Uninit) <=> (LossWritesAt(k) = {})
        /\ Len(loss) = TokenCount
        /\ pc \in {"sum", "forward_computed", "backward_consumed"} =>
              \A k \in 0..(TokenCount - 1) : Cardinality(LossWritesAt(k)) = 1
        /\ pc \in {"forward_computed", "backward_consumed"} =>
              ret_loss # Uninit /\ ret_loss = FSum(loss)

C16_Witness ==
    /\ pc = "kernel"
    /\ n_loop_iters = 2
    /\ i = 1
    /\ TokenCount = 4
    /\ loss[1] # Uninit /\ loss[2] # Uninit /\ loss[2] # 0
    /\ loss[3] = Uninit /\ loss[4] = Uninit

\* the logged GradFeature writes that cover row k (counted from 0)
FeatWritesAt(k) ==
    {w \in Writes(trace) :
        trace[w].op = "store_feat" /\ trace[w].lo <= k /\ k < trace[w].hi}
\* dLogits @ weight and dLogits^T @ hiddenChunk, entry by entry
TimesWeight(g, r, h) ==
    FSum([c \in 1..Len(proj_weight_cast) |-> FMul(g[r][c], proj_weight_cast[c][h])])
TransposeTimes(g, x, c, h) == FSum([r \in 1..Len(g) |-> FMul(g[r][c], x[r][h])])
\* GradWeight accumulated in place over the first j chunks, from zero
RECURSIVE AccumulatedWeight(_, _)
AccumulatedWeight(j, dt) ==
    IF j = 0 THEN ZeroRows(Len(proj_weight.data), Len(proj_weight.data[1]))
    ELSE LET prev == AccumulatedWeight(j - 1, dt)
         IN  [c \in 1..Len(prev) |->
                [h \in 1..Len(prev[c]) |->
                    CastVal(FAdd(prev[c][h],
                                 TransposeTimes(contrib[j].g, contrib[j].x, c, h)), dt)]]
AfterLoop == pc \in {"sum", "forward_computed", "backward_consumed"}

\* C17: after the loop, rows [j*chunkSize, (j+1)*chunkSize) of GradFeature
\* are dLogits_j @ weight for every chunk j, and each row was written by
\* exactly one chunk; GradWeight is the in-place accumulation, from zero, of
\* dLogits_j^T @ hiddenChunk_j over all K chunks, which in float32 is their
\* plain sum.
C17_GradAssembly ==
    AfterLoop =>
        /\ Len(contrib) = n_loop_iters
        /\ \A k \in 0..(TokenCount - 1) :
              LET j == k \div loop_chunk_size
                  r == (k % loop_chunk_size) + 1
              IN  /\ Cardinality(FeatWritesAt(k)) = 1
                  /\ \A w \in FeatWritesAt(k) :
                        trace[w].chunk = j /\ trace[w].buf = storage.grad_in_feat
                  /\ grad_in_feat.data[k + 1] =
                        [h \in 1..in_feat.shape[3] |->
                            CastVal(CastVal(TimesWeight(contrib[j + 1].g, r, h), dtype),
                                    in_feat.dtype)]
        /\ ~IsNone(grad_proj_weight) =>
              /\ grad_proj_weight.data = AccumulatedWeight(n_loop_iters, dtype)
              /\ dtype = F32 =>
                    \A c \in 1..Len(proj_weight.data), h \in 1..Len(proj_weight.data[1]) :
                        grad_proj_weight.data[c][h] =
                            FSum([j \in 1..n_loop_iters |->
                                    TransposeTimes(contrib[j].g, contrib[j].x, c, h)])

C17_Witness ==
    /\ pc = "sum"
    /\ n_loop_iters = 2
    /\ TokenCount = 4
    /\ ~ZeroRow(grad_in_feat.data[1]) /\ ~ZeroRow(grad_in_feat.data[4])
    /\ grad_in_feat.data[1] # grad_in_feat.data[4]
    /\ ~IsNone(grad_proj_weight)
    /\ contrib[1].g # contrib[2].g
    /\ \E c \in 1..3 : ~ZeroRow(grad_proj_weight.data[c])

\* the (chunkTokens, vocabSize) tensors of forward
ChunkBufferNames == {"logits_chunk_cast", "logits_chunk", "grad_logits_chunk"}
ChunkBufferAllocs(tr) ==
    {k \in 1..Len(tr) : tr[k].op = "alloc" /\ tr[k].buf[1] \in ChunkBufferNames}
\* the distinct vocabulary-sized memories a name of forward still refers to
LiveChunkBuffers ==
    {storage.logits_chunk_cast, storage.logits_chunk, storage.grad_logits_chunk}
        \ {NoMem}

\* C15: in every compute precision one (chunkTokens, vocabSize) buffer is
\* allocated, before the loop; every chunk's matmul and every launch's
\* gradient store write that buffer, which after the launch holds the
\* gradients; no second vocabulary-sized buffer is ever live.
C15_SingleChunkBuffer ==
    Running =>
        /\ Cardinality(ChunkBufferAllocs(trace)) = 1
        /\ \A k \in ChunkBufferAllocs(trace) : trace[k].chunk = -1
        /\ \A w \in Writes(trace) :
              trace[w].op \in {"matmul_out", "store_grad"} =>
                  trace[w].buf = Mem("logits_chunk_cast", 0)
        /\ pc = "assemble" => logits_chunk_cast.data = logits_chunk.data
        /\ Cardinality(LiveChunkBuffers) <= 1

Loaded(r) == programs[r].pc # "load"
\* the buffer addresses of row r's vocabSize columns
OwnRow(r) == {RowBase(r) + c : c \in 0..(grid.n_cols - 1)}
RealCols(x) == [k \in 1..grid.n_cols |-> x[k]]

\* C18: a program's lanes beyond vocabSize (the row width is the next power
\* of two) hold -inf, are not the row maximum and add 0 to the exponential
\* sum; the program reads and writes only the vocabSize columns of its own
\* row, so a row whose program has not stored yet still holds its logits.
C18_PaddingSafety ==
    /\ grid.n_rows > 0 =>
          /\ grid.BLOCK_SIZE >= grid.n_cols
          /\ grid.BLOCK_SIZE < 2 * grid.n_cols
          /\ \E e \in 0..grid.n_cols : grid.BLOCK_SIZE = 2^e
    /\ \A r \in ProgramIds :
          /\ Loaded(r) =>
                LET x == programs[r].x
                    m == FMaxSeq(x)
                    e == [k \in 1..Len(x) |-> FExp(FSub(x[k], m))]
                IN  /\ Len(x) = grid.BLOCK_SIZE
                    /\ RealCols(x) = grid.logits[r + 1]
                    /\ \A k \in (grid.n_cols + 1)..grid.BLOCK_SIZE :
                          x[k] = NInf /\ x[k] # m /\ e[k] = 0
                    /\ m = RowMaxOf(RealCols(x))
                    /\ FSum(e) = FSum(ExpTerms(RealCols(x)))
                    /\ accesses[r].reads = OwnRow(r)
          /\ accesses[r].writes = IF Done(r) THEN OwnRow(r) ELSE {}
          /\ ~Done(r) => StoredGrad(r) = grid.logits[r + 1]
          /\ Done(r) => StoredGrad(r) = [k \in 1..grid.n_cols |-> ProgramOut(r).grad[k]]
    /\ Len(gpu_mem.logits) = grid.n_rows * grid.n_cols

C18_Witness ==
    /\ grid.n_rows = 2
    /\ grid.n_cols = 3 /\ grid.BLOCK_SIZE = 4
    /\ Done(0) /\ ~Loaded(1)
    /\ programs[0].x[4] = NInf
    /\ StoredGrad(0) # grid.logits[1]
    /\ StoredGrad(1) = grid.logits[2]

\* the launch's result computed row after row from its arguments alone
SequentialOut ==
    [r \in 1..grid.n_rows |->
        KernelRow(grid.logits[r], grid.targ[r], grid.divisor, grid.n_cols,
                  grid.ignore_index, grid.BLOCK_SIZE)]

\* C19: the programs of one launch run in any interleaving; each reads only
\* its own row, and reads it before it writes it; what it stores is a
\* function of its row's logits, its target, the divisor and ignore_index;
\* so whatever the interleaving, the loss buffer and the shared
\* logits/gradient buffer end as in the row-after-row computation.
C19_RowIndependence ==
    LET seq == SequentialOut
    IN  /\ \A r \in ProgramIds :
              /\ accesses[r].reads \subseteq OwnRow(r)
              /\ accesses[r].writes \subseteq OwnRow(r)
              /\ accesses[r].loss_writes \subseteq {r}
              /\ accesses[r].writes # {} => accesses[r].reads = OwnRow(r)
              /\ \A q \in ProgramIds : q # r => OwnRow(q) \cap OwnRow(r) = {}
              /\ Loaded(r) => RealCols(programs[r].x) = grid.logits[r + 1]
              /\ gpu_mem.loss[r + 1] =
                    IF programs[r].pc \in {"store_grad", "done"}
                    THEN seq[r + 1].loss ELSE Uninit
              /\ StoredGrad(r) = IF Done(r) THEN seq[r + 1].grad ELSE grid.logits[r + 1]
        /\ AllDone =>
              /\ gpu_mem.loss = [r \in 1..grid.n_rows |-> seq[r].loss]
              /\ gpu_mem.logits =
                    Flatten([r \in 1..grid.n_rows |-> seq[r].grad], grid.n_cols)

C19_Witness ==
    /\ grid.n_rows = 2
    /\ grid.n_cols = 3
    /\ Done(1) /\ programs[0].pc = "store_loss"
    /\ gpu_mem.loss[1] = Uninit /\ gpu_mem.loss[2] # Uninit
    /\ grid.logits[1] # grid.logits[2]
    /\ grid.targ[1] = 0 /\ grid.targ[2] = 2

\* ------------------------------------------- claims about the model wrapper
\* C20: when forward takes the fused path, the chunk count, the ignore index
\* and the reduction mode it hands to fused_cel_layer are the ones
\* patch_model stored in model.config.fused_cel.
C20_WrapperHonoursConfig ==
    wrapper.call # NoCall =>
        /\ wrapper.call.n_loop_iters = model_config.fused_cel.n_loop_iters
        /\ wrapper.call.ignore_index = model_config.fused_cel.ignore_index
        /\ wrapper.call.reduction = model_config.fused_cel.reduction


\* ------------------------------------------------------------------ C21
FlagCount(a, b) == (IF a THEN 1 ELSE 0) + (IF b THEN 1 ELSE 0)
\* a gradient buffer of the weight's shape, as zeros_like(proj_weight) makes it
WeightShaped == Tensor(proj_weight.shape, dtype, ZeroRows(n_classes, hidden_dim))
\* what backward unpacks from what forward saved, for the flags fi and fw
RoundTrip(fi, fw, g_feat, g_weight) ==
    LET saved == SaveForBackward(fi, fw, g_feat, g_weight)
        u     == Unpack(fi, fw, saved)
    IN  /\ Len(saved) = FlagCount(fi, fw)
        /\ u.grad_in_feat = (IF fi THEN g_feat ELSE None)
        /\ u.grad_proj_weight = (IF fw THEN g_weight ELSE None)
IsFeatGrad(t) == ~IsNone(t) /\ t.shape = in_feat.shape
IsWeightGrad(t) == ~IsNone(t) /\ t.shape = proj_weight.shape

\* C21: forward saves as many tensors as backward unpacks for the recorded
\* flags, and each saved gradient reaches the slot of its own input: slot 1 is
\* the feature gradient or None, slot 2 is the weight gradient or None; for
\* all four flag combinations the unpacking inverts the saving, and with no
\* flag set nothing is saved and both slots are None.
C21_SaveRetrieve ==
    /\ AfterLoop =>
         \A fi \in BOOLEAN, fw \in BOOLEAN :
            RoundTrip(fi, fw, ViewAsInput(grad_in_feat), WeightShaped)
    /\ pc = "forward_computed" =>
         /\ Len(ctx.saved_tensors) =
               FlagCount(ctx.in_feat_requires_grad, ctx.proj_weight_requires_grad)
         /\ ctx.in_feat_requires_grad => IsFeatGrad(UnpackSaved.grad_in_feat)
         /\ ctx.proj_weight_requires_grad => IsWeightGrad(UnpackSaved.grad_proj_weight)
    /\ pc = "backward_consumed" =>
         /\ IF ctx.in_feat_requires_grad
            THEN IsFeatGrad(ret_grads[1]) ELSE IsNone(ret_grads[1])
         /\ IF ctx.proj_weight_requires_grad
            THEN IsWeightGrad(ret_grads[2]) ELSE IsNone(ret_grads[2])
         /\ \A k \in 3..Len(ret_grads) : IsNone(ret_grads[k])

\* backward has returned for a call whose weight needed no gradient: the one
\* saved tensor is in the feature slot
C21_Witness ==
    /\ pc = "backward_consumed"
    /\ ctx.in_feat_requires_grad /\ ~ctx.proj_weight_requires_grad
    /\ IsFeatGrad(ret_grads[1]) /\ IsNone(ret_grads[2])


\* ------------------------------------------------------------------ C22
NotHalf(t) == ~IsNone(t) /\ t.dtype # F16
NonZeroTensor(t) == \E c \in 1..Len(t.data) : ~ZeroRow(t.data[c])

\* C22: a saved gradient whose storage precision is not float16 is returned
\* by backward unchanged: whatever the upstream gradient, the returned tensor
\* is the saved one, so it is the same for every value of grad_output.
C22_UnscaledPassThrough ==
    /\ pc = "forward_computed" =>
         \A j \in 1..Len(ctx.saved_tensors) :
            NotHalf(ctx.saved_tensors[j]) =>
               \A g \in GradOutputs :
                  \E k \in 1..2 :
                     /\ BackwardResult(g)[k] = ctx.saved_tensors[j]
                     /\ BackwardResult(g)[k] = BackwardResult(ONE)[k]
    /\ pc = "backward_consumed" =>
         /\ NotHalf(grad_in_feat) => ret_grads[1] = grad_in_feat
         /\ NotHalf(grad_proj_weight) => ret_grads[2] = grad_proj_weight

\* backward has run with an upstream gradient other than 1 and returned a
\* non-zero bfloat16 weight gradient and a non-zero float32 feature gradient
\* as they were saved
C22_Witness ==
    /\ pc = "backward_consumed"
    /\ grad_output # ONE
    /\ NotHalf(grad_proj_weight) /\ grad_proj_weight.dtype = BF16
    /\ NonZeroTensor(grad_proj_weight)
    /\ ret_grads[2] = grad_proj_weight
    /\ NotHalf(grad_in_feat) /\ grad_in_feat.dtype = F32
    /\ NonZeroTensor(grad_in_feat)
    /\ ret_grads[1] = grad_in_feat


\* ------------------------------------------------------------------ C23
OutOfRange(k) ==
    /\ targ.data[k] # ignore_index
    /\ ~(0 <= targ.data[k] /\ targ.data[k] < n_classes)
OutsideBlock(k) == targ.data[k] < 0 \/ targ.data[k] >= BLOCK_SIZE
\* the float32 logits of token k, and the gradient row the kernel left for it
TokenLogits(k) == [c \in 1..n_classes |-> Dot(in_feat.data[k], proj_weight.data[c])]
TokenGrad(k) ==
    contrib[((k - 1) \div loop_chunk_size) + 1].g[((k - 1) % loop_chunk_size) + 1]
ScaledSoftmax(x, div) == [c \in 1..Len(x) |-> FDiv(Softmax(x)[c], div)]
HasOutOfRange == \E k \in 1..Len(targ.data) : OutOfRange(k)

\* C23: a label that is neither ignore_index nor a class index is not
\* rejected: forward raises no error for it; a label outside [0, BLOCK_SIZE)
\* gives the row the loss logSumExp / divisor and the gradient
\* softmax / divisor, and a label in [n_classes, BLOCK_SIZE) gives the row a
\* non-finite loss.
C23_OutOfRangeLabels ==
    /\ (HasOutOfRange /\ OtherChecksPass /\ n_tokens % n_loop_iters = 0) =>
           (err = "none" /\ pc # "error")
    /\ (AfterLoop /\ in_feat.dtype = F32 /\ dtype = F32) =>
          \A k \in 1..Len(targ.data) :
             OutOfRange(k) =>
                LET x == TokenLogits(k)
                IN  /\ TokenGrad(k) = ScaledSoftmax(x, divisor)
                    /\ IF OutsideBlock(k)
                       THEN loss[k] = FDiv(LogSumExp(x), divisor)
                       ELSE ~IsFin(loss[k])

\* forward has returned for two tokens, one labelled with a padding column
\* (non-finite loss) and one labelled past the block (finite, non-zero loss)
C23_Witness ==
    /\ pc = "forward_computed"
    /\ err = "none"
    /\ \E k \in 1..Len(targ.data) :
          OutOfRange(k) /\ ~OutsideBlock(k) /\ ~IsFin(loss[k])
    /\ \E k \in 1..Len(targ.data) :
          OutOfRange(k) /\ OutsideBlock(k) /\ IsFin(loss[k]) /\ loss[k] # 0
          /\ ~ZeroRow(TokenGrad(k))
    /\ ~IsFin(ret_loss)


\* ------------------------------------------------------------------ C24
\* C24: whatever branch LlamaForCausalLMFusedCEL.forward takes, loss is
\* bound when the output is built: the call never ends in an
\* UnboundLocalError, and a call whose labels are given (or that does not
\* take the fused path) returns an output.
C24_LossAlwaysBound ==
    wrapper.pc \in {"returned", "error"} =>
        /\ wrapper.err # "UnboundLocalError"
        /\ wrapper.pc = "error" => wrapper.err = "labels_none"


\* ------------------------------------------------------------------ C25
AllIgnored == Len(targ.data) > 0 /\ \A k \in 1..Len(targ.data) : Ignored(k)
AllZero(t) == \A c \in 1..Len(t.data) : ZeroRow(t.data[c])

\* C25: with reduction "mean" and every label equal to ignore_index the
\* divisor is 0; forward still completes without error, every stored loss and
\* every gradient row the kernel stores is exactly 0, the returned loss is 0
\* and GradFeature and GradWeight are all zero.
C25_AllIgnoredMean ==
    (reduction = "mean" /\ AllIgnored /\ OtherChecksPass
        /\ n_tokens % n_loop_iters = 0) =>
        /\ err = "none" /\ pc # "error"
        /\ Running => divisor = 0
        /\ AfterLoop =>
              /\ \A k \in 1..n_tokens : loss[k] = 0
              /\ \A j \in 1..Len(contrib) :
                    \A r \in 1..Len(contrib[j].g) : ZeroRow(contrib[j].g[r])
              /\ ~IsNone(grad_in_feat) /\ AllZero(grad_in_feat)
              /\ ~IsNone(grad_proj_weight) => AllZero(grad_proj_weight)
        /\ pc \in {"forward_computed", "backward_consumed"} => ret_loss = 0

\* forward has returned for a batch of several chunks whose labels are all
\* ignore_index under reduction "mean": divisor 0, loss 0, zero gradients
C25_Witness ==
    /\ pc = "forward_computed"
    /\ reduction = "mean" /\ AllIgnored
    /\ divisor = 0
    /\ launches > 1 /\ n_tokens > 1
    /\ ret_loss = 0
    /\ ~IsNone(grad_proj_weight) /\ AllZero(grad_proj_weight)
    /\ AllZero(grad_in_feat)


\* ------------------------------------------------------------------ C26
\* hiddenChunk_j @ weight^T in the compute precision, row by row
ChunkProjection(j) ==
    [r \in 1..loop_chunk_size |->
        [c \in 1..n_classes |->
            CastVal(Dot(CastRow(in_feat_view.data[j * loop_chunk_size + r], dtype),
                        proj_weight_cast[c]), dtype)]]
\* the positions in the trace of chunk j's projection into buffer b, all rows
FullOverwrites(j, b) ==
    {k \in 1..Len(trace) :
        /\ trace[k].op = "matmul_out" /\ trace[k].chunk = j /\ trace[k].buf = b
        /\ trace[k].lo = 0 /\ trace[k].hi = loop_chunk_size}

\* C26: when the kernel is launched for chunk i, the buffer it reads holds,
\* in each of its chunkSize rows, that row of hiddenChunk_i @ weight^T: the
\* projection of chunk i wrote all rows of the reused buffer, and no gradient
\* store came after it.
C26_NoStaleLogits ==
    pc = "kernel" =>
        /\ Len(logits_chunk.data) = loop_chunk_size
        /\ logits_chunk.data = ChunkProjection(i)
        /\ \E m \in FullOverwrites(i, storage.logits_chunk_cast) :
              \A k \in (m + 1)..Len(trace) : trace[k].op # "store_grad"

\* the kernel is about to run on the second or a later chunk of a float32
\* call: the reused buffer held the previous chunk's non-zero gradients, and
\* now holds other values, the chunk's logits
C26_Witness ==
    /\ pc = "kernel"
    /\ i >= 1
    /\ loop_chunk_size > 1
    /\ storage.logits_chunk = storage.logits_chunk_cast
    /\ \E r \in 1..Len(contrib[i].g) :
          ~ZeroRow(contrib[i].g[r]) /\ contrib[i].g[r] # logits_chunk.data[r]


\* ------------------------------------------------------------------ C27
MixedPrecisionActive == autocast # "off"
\* the weight in the compute precision, from the caller's weight
CastWeight == CastRows(proj_weight.data, dtype)
\* the positions in the trace where a cast copy of the weight was made
WeightCasts(tr) ==
    {k \in 1..Len(tr) : tr[k].op = "alloc" /\ tr[k].buf[1] = "proj_weight_cast"}
ChunkEvents(tr) == {k \in 1..Len(tr) : tr[k].chunk >= 0}
\* row r of GradFeature as chunk j's assembly wrote it, from the cast weight W
FeatRowFromCast(W, j, r) ==
    [h \in 1..hidden_dim |->
        CastVal(CastVal(FSum([c \in 1..n_classes |->
                                FMul(contrib[j + 1].g[r][c], W[c][h])]),
                        dtype), in_feat.dtype)]

\* C27: the compute precision is the autocast precision under mixed
\* precision and the features' own precision otherwise; the weight is cast to
\* it once, before the first chunk (one cast copy when the weight's precision
\* differs, the weight itself when it does not), and in every chunk the
\* projection and the feature-gradient assembly use that one cast weight.
C27_ComputePrecisionAndCast ==
    Running =>
        LET W == CastWeight
        IN  /\ dtype = (IF MixedPrecisionActive THEN autocast ELSE in_feat.dtype)
            /\ proj_weight_cast = W
            /\ storage.proj_weight_cast =
                  (IF proj_weight.dtype = dtype
                   THEN Mem("proj_weight", 0) ELSE Mem("proj_weight_cast", 0))
            /\ Cardinality(WeightCasts(trace)) =
                  (IF proj_weight.dtype = dtype THEN 0 ELSE 1)
            /\ \A k \in WeightCasts(trace) :
                  /\ trace[k].chunk = -1
                  /\ \A e \in ChunkEvents(trace) : k < e
            /\ pc = "kernel" => logits_chunk.data = MatmulT(in_feat_chunk, W, dtype)
            /\ (pc \in {"project", "sum"} /\ i >= 1) =>
                  \A r \in 1..loop_chunk_size :
                     grad_in_feat.data[(i - 1) * loop_chunk_size + r] =
                        FeatRowFromCast(W, i - 1, r)

\* a bfloat16-autocast call on float32 features has finished its second
\* chunk: one cast copy of the weight, made before the loop, served both
C27_Witness ==
    /\ pc = "sum"
    /\ MixedPrecisionActive /\ dtype = BF16 /\ in_feat.dtype = F32
    /\ proj_weight.dtype # dtype
    /\ Len(contrib) = 2
    /\ Cardinality(WeightCasts(trace)) = 1
    /\ \E r \in 1..n_tokens : ~ZeroRow(grad_in_feat.data[r])

====
